---- MODULE Spec2Model ----
(***************************************************************************)
(* A model of bme680_monitor.air_quality.AirQualityCalculator: the         *)
(* baseline/calibration engine of the BME680 monitor, of its two           *)
(* collaborators data_logger.DataLogger and config.Config, and of the      *)
(* polling loop of sensor.py that the calculator replaces.                 *)
(*                                                                         *)
(* Representation.  Wall-clock times (time.time(), floats in seconds) are  *)
(* integers counting ticks of 1/TicksPerSecond second; a duration given in *)
(* seconds is converted with Secs.  Gas resistances are integers (Ohms);   *)
(* a baseline, being a mean, is an exact fraction [n, d] in lowest terms.  *)
(* A python value that may be None, a number or a string is a record       *)
(* [t, n, d] with t in {"null", "missing", "num", "str"}.                  *)
(***************************************************************************)
EXTENDS Integers, Sequences, FiniteSets, TLC

VARIABLES
    cfg,                             \* constructor arguments (lines 65-78)
    now,                             \* the wall clock, in ticks
    file,                            \* content of baseline_file
    status,                          \* "running" | "crashed" (constructor raised)
    gas_baseline,                    \* self.gas_baseline
    time_baseline_established,       \* self.time_baseline_established
    current_calibration_start_time,  \* self.current_calibration_start_time
    baseline_gas_readings,           \* self.baseline_gas_readings
    call,                            \* the call that just returned: arguments and result
    info,                            \* what get_baseline_info() last returned to the caller
    csv,                             \* content of the DataLogger's CSV file
    logger,                          \* the DataLogger and the list of its open batch context
    lcall,                           \* the DataLogger call that just returned, and the calls so far
    _config,                         \* Config._config, the loaded YAML document
    got                              \* the Config.get call that just returned

vars == <<cfg, now, file, status, gas_baseline, time_baseline_established,
          current_calibration_start_time, baseline_gas_readings, call, info,
          csv, logger, lcall, _config, got>>

\* the state of the calculator, and the state of its collaborators
calculator == <<cfg, now, file, status, gas_baseline, time_baseline_established,
                current_calibration_start_time, baseline_gas_readings, call, info>>
collaborators == <<csv, logger, lcall, _config, got>>

-----------------------------------------------------------------------------
(* Bounds of the model *)

TicksPerSecond == 1
MaxTicks == 4
MaxSamples == 2
MaxSkew == 1
MaxCalls == 2
MaxRows == 3
MaxBatch == 2
MaxLogTicks == 1
MaxPathLen == 3

-----------------------------------------------------------------------------
(* Values *)

Null == [t |-> "null", n |-> 0, d |-> 1]
Missing == [t |-> "missing", n |-> 0, d |-> 1]
Str(k) == [t |-> "str", n |-> k, d |-> 1]

RECURSIVE GCD(_, _)
GCD(a, b) == IF b = 0 THEN a ELSE GCD(b, a % b)

Abs(x) == IF x < 0 THEN -x ELSE x

\* the fraction n/d in lowest terms with a positive denominator (d # 0)
Frac(n, d) ==
    LET g == GCD(Abs(n), Abs(d))
        s == IF d < 0 THEN -1 ELSE 1
    IN  [t |-> "num", n |-> (s * n) \div g, d |-> (s * d) \div g]

Num(k) == Frac(k, 1)

FracLT(a, b) == a.n * b.d < b.n * a.d
FracGT(a, b) == FracLT(b, a)

Secs(s) == s * TicksPerSecond
SecondsPerHour == 3600

ClockStart == Secs(2 * SecondsPerHour)

\* a bug: the seconds are rounded up to the next whole second
IntSeconds_up(k) == k \div TicksPerSecond + 1

\* int(x) of a non-negative duration of k ticks, in whole seconds
IntSeconds(k) == k \div TicksPerSecond

RECURSIVE SumSeq(_)
SumSeq(s) == IF s = <<>> THEN 0 ELSE Head(s) + SumSeq(Tail(s))

-----------------------------------------------------------------------------
(* AirQualityLevel *)

CALIBRATING == 0
POOR == 1
MODERATE == 2
GOOD == 3

Min(a, b) == IF a < b THEN a ELSE b

-----------------------------------------------------------------------------
(* Constructor arguments *)

good_threshold == Frac(135, 100)
poor_threshold == Frac(70, 100)
excellent_threshold_abs == 150000
good_threshold_abs == 100000
moderate_threshold_abs == 50000
clean_air_min == 50000
clean_air_max == 200000

Configs ==
    [burn_in_duration : {0, 1},
     baseline_sampling_duration : {0, 1},
     recalibration_interval : {0, 1},
     baseline_max_age_hours : {1},
     clean_air_min : {clean_air_min},
     clean_air_max : {clean_air_max}]

Readings == {0, 50000, 189000}

-----------------------------------------------------------------------------
(* The persistence file *)

NoFields == [baseline |-> Missing, timestamp |-> Missing, timestamp_readable |-> Missing]

Absent == [kind |-> "absent"] @@ NoFields
Empty == [kind |-> "empty"] @@ NoFields
Malformed == [kind |-> "malformed"] @@ NoFields
NonObject == [kind |-> "nonobject"] @@ NoFields
Object(b, ts, r) ==
    [kind |-> "object", baseline |-> b, timestamp |-> ts, timestamp_readable |-> r]

\* datetime.fromtimestamp(ts).strftime('%Y-%m-%d %H:%M:%S'): whole seconds
Readable(ts) == Str(ts.n \div TicksPerSecond)

FileBaselines == {140000, 270000, 300000}

InitialFiles ==
    {Absent, Empty, Malformed, NonObject}
    \cup {Object(Num(b), Num(ClockStart - 1), Readable(Num(ClockStart - 1))) : b \in FileBaselines}
    \cup {Object(Num(140000), Num(ClockStart - Secs(SecondsPerHour)), Missing),
          Object(Num(0), Num(ClockStart - 1), Missing),
          Object(Missing, Num(ClockStart - 1), Missing),
          Object(Num(140000), Missing, Missing),
          Object(Null, Null, Missing),
          Object(Str(1), Num(ClockStart - 1), Missing),
          Object(Num(140000), Str(1), Missing)}

-----------------------------------------------------------------------------
(* The object: the fields of self that change after construction *)

Self ==
    [gas_baseline |-> gas_baseline,
     time_baseline_established |-> time_baseline_established,
     current_calibration_start_time |-> current_calibration_start_time,
     baseline_gas_readings |-> baseline_gas_readings]

\* python truth value of a value read from the JSON object
Truthy(v) == (v.t = "num" /\ v.n # 0) \/ v.t = "str"

\* the clean-air validation message logged for a baseline (lines 126-136, 252-264)
ValidationLog(c_min, c_max, b) ==
    IF FracLT(b, Num(c_min)) THEN "low"
    ELSE IF FracGT(b, Num(c_max)) THEN "very clean"
    ELSE "within range"

\* a bug: the age taken in days
TooOld_days(c, saved_timestamp, t) ==
    t - saved_timestamp.n >= c.baseline_max_age_hours * Secs(SecondsPerHour) * 24

\* a bug: an age equal to the maximum is accepted
TooOld_gt(c, saved_timestamp, t) ==
    t - saved_timestamp.n > c.baseline_max_age_hours * Secs(SecondsPerHour)

\* age_hours >= self.baseline_max_age_hours, age_hours = (t - saved_timestamp) / 3600
TooOld(c, saved_timestamp, t) ==
    t - saved_timestamp.n >= c.baseline_max_age_hours * Secs(SecondsPerHour)

\* a bug: a baseline below the clean-air range is not loaded
load_baseline_rejecting_low(c, self, f, t) ==
    LET no(s) == [outcome |-> "False", self |-> s, log |-> "", read113 |-> FALSE]
        saved_baseline == f.baseline          \* data.get('baseline'): None when missing
        saved_timestamp == f.timestamp
        loaded == [self EXCEPT !.gas_baseline = saved_baseline,
                               !.time_baseline_established = saved_timestamp.n]
    IN  IF f.kind = "absent" THEN no(self)                       \* line 99
        ELSE IF f.kind \in {"empty", "malformed"} THEN no(self)  \* JSONDecodeError, line 140
        ELSE IF f.kind = "nonobject"                             \* data.get: not caught
             THEN [outcome |-> "AttributeError", self |-> self, log |-> "",
                   read113 |-> FALSE]
        ELSE IF ~Truthy(saved_baseline) \/ ~Truthy(saved_timestamp) THEN no(self)
        ELSE IF saved_timestamp.t # "num"                        \* time.time() - str
             THEN [outcome |-> "TypeError", self |-> self, log |-> "", read113 |-> TRUE]
        ELSE IF TooOld(c, saved_timestamp, t)
             THEN [outcome |-> "False", self |-> self, log |-> "too old", read113 |-> TRUE]
        ELSE IF saved_baseline.t # "num"                         \* f"{...:.2f}" of a str
             THEN [outcome |-> "ValueError", self |-> loaded, log |-> "", read113 |-> TRUE]
        ELSE IF FracLT(saved_baseline, Num(c.clean_air_min))
             THEN [outcome |-> "False", self |-> self, log |-> "low", read113 |-> TRUE]
        ELSE [outcome |-> "True", self |-> loaded,
              log |-> ValidationLog(c.clean_air_min, c.clean_air_max, saved_baseline),
              read113 |-> TRUE]

\* load_baseline() on the object self, the clock reading t at line 113.
\* outcome: "False" | "True" | the exception that escapes
load_baseline(c, self, f, t) ==
    LET no(s) == [outcome |-> "False", self |-> s, log |-> "", read113 |-> FALSE]
        saved_baseline == f.baseline          \* data.get('baseline'): None when missing
        saved_timestamp == f.timestamp
        loaded == [self EXCEPT !.gas_baseline = saved_baseline,
                               !.time_baseline_established = saved_timestamp.n]
    IN  IF f.kind = "absent" THEN no(self)                       \* line 99
        ELSE IF f.kind \in {"empty", "malformed"} THEN no(self)  \* JSONDecodeError, line 140
        ELSE IF f.kind = "nonobject"                             \* data.get: not caught
             THEN [outcome |-> "AttributeError", self |-> self, log |-> "",
                   read113 |-> FALSE]
        ELSE IF ~Truthy(saved_baseline) \/ ~Truthy(saved_timestamp) THEN no(self)
        ELSE IF saved_timestamp.t # "num"                        \* time.time() - str
             THEN [outcome |-> "TypeError", self |-> self, log |-> "", read113 |-> TRUE]
        ELSE IF TooOld(c, saved_timestamp, t)
             THEN [outcome |-> "False", self |-> self, log |-> "too old", read113 |-> TRUE]
        ELSE IF saved_baseline.t # "num"                         \* f"{...:.2f}" of a str
             THEN [outcome |-> "ValueError", self |-> loaded, log |-> "", read113 |-> TRUE]
        ELSE [outcome |-> "True", self |-> loaded,
              log |-> ValidationLog(c.clean_air_min, c.clean_air_max, saved_baseline),
              read113 |-> TRUE]

\* the outcomes of open(baseline_file, 'w') followed by json.dump; "crash" is the
\* process dying after open() has truncated the file and before the dump is out
SaveOutcomes == {"ok", "open_error", "write_error", "crash"}

\* a bug: the record is not written
save_baseline_skipped(self, f, outcome, partial) ==
    [file |-> f, attempted |-> self.gas_baseline # Null, ok |-> FALSE]

\* save_baseline(): the file afterwards, and whether a write was attempted
save_baseline(self, f, outcome, partial) ==
    IF self.gas_baseline = Null
    THEN [file |-> f, attempted |-> FALSE, ok |-> FALSE]
    ELSE LET data == Object(self.gas_baseline,
                            Num(self.time_baseline_established),
                            Readable(Num(self.time_baseline_established)))
         IN  IF outcome = "ok" THEN [file |-> data, attempted |-> TRUE, ok |-> TRUE]
             ELSE IF outcome = "open_error"
                  THEN [file |-> f, attempted |-> TRUE, ok |-> FALSE]
             ELSE [file |-> partial, attempted |-> TRUE, ok |-> FALSE]

\* a bug: an interval of 0 does not switch the recalibration off
should_recalibrate_no_disable(c, self, t) ==
    IF self.gas_baseline = Null THEN FALSE
    ELSE t - self.time_baseline_established > Secs(c.recalibration_interval)

\* a bug: the interval compared with >=
should_recalibrate_ge(c, self, t) ==
    IF self.gas_baseline = Null THEN FALSE
    ELSE IF c.recalibration_interval <= 0 THEN FALSE
    ELSE t - self.time_baseline_established >= Secs(c.recalibration_interval)

\* a bug: a recalibration is found due although no baseline is set
should_recalibrate_without_baseline(c, self, t) ==
    IF c.recalibration_interval <= 0 THEN FALSE
    ELSE t - self.time_baseline_established > Secs(c.recalibration_interval)

\* should_recalibrate(), the clock reading t at line 178
should_recalibrate(c, self, t) ==
    IF self.gas_baseline = Null THEN FALSE
    ELSE IF c.recalibration_interval <= 0 THEN FALSE
    ELSE t - self.time_baseline_established > Secs(c.recalibration_interval)

\* line 178 is reached
reads_clock_178(c, self) ==
    self.gas_baseline # Null /\ ~(c.recalibration_interval <= 0)

\* a bug: the baseline is not cleared
trigger_recalibration_keeps_baseline(self, t) ==
    [gas_baseline |-> self.gas_baseline,
     time_baseline_established |-> 0,
     current_calibration_start_time |-> t,
     baseline_gas_readings |-> <<>>]

\* a bug: the cycle's start time is not reset
trigger_recalibration_keeps_start(self, t) ==
    [gas_baseline |-> Null,
     time_baseline_established |-> 0,
     current_calibration_start_time |-> self.current_calibration_start_time,
     baseline_gas_readings |-> <<>>]

\* a bug: the reset keeps the baseline and stamps it anew
trigger_recalibration_restamping(self, t) ==
    [gas_baseline |-> self.gas_baseline,
     time_baseline_established |-> t,
     current_calibration_start_time |-> t,
     baseline_gas_readings |-> <<>>]

\* trigger_recalibration(), the clock reading t at line 188
trigger_recalibration(self, t) ==
    [gas_baseline |-> Null,
     time_baseline_established |-> 0,
     current_calibration_start_time |-> t,
     baseline_gas_readings |-> <<>>]

\* a bug: the moderate threshold compared with >=
_assess_absolute_quality_ge(g) ==
    IF g > excellent_threshold_abs THEN GOOD
    ELSE IF g > good_threshold_abs THEN GOOD
    ELSE IF g >= moderate_threshold_abs THEN MODERATE
    ELSE POOR

_assess_absolute_quality(g) ==
    IF g > excellent_threshold_abs THEN GOOD
    ELSE IF g > good_threshold_abs THEN GOOD
    ELSE IF g > moderate_threshold_abs THEN MODERATE
    ELSE POOR

\* a bug: the good threshold compared with >=
_assess_relative_quality_ge(ratio) ==
    IF ~FracLT(ratio, good_threshold) THEN GOOD
    ELSE IF FracLT(ratio, poor_threshold) THEN POOR
    ELSE MODERATE

\* a bug: the poor threshold compared with <=
_assess_relative_quality_le(ratio) ==
    IF FracGT(ratio, good_threshold) THEN GOOD
    ELSE IF ~FracGT(ratio, poor_threshold) THEN POOR
    ELSE MODERATE

_assess_relative_quality(ratio) ==
    IF FracGT(ratio, good_threshold) THEN GOOD
    ELSE IF FracLT(ratio, poor_threshold) THEN POOR
    ELSE MODERATE

LevelLabel(level) ==
    CASE level = CALIBRATING -> "Calibrating"
      [] level = POOR -> "Poor"
      [] level = MODERATE -> "Moderate"
      [] level = GOOD -> "Good"

Ret(index, label, k) == [raised |-> "", index |-> index, label |-> label, n |-> k]
Raise(e) == [raised |-> e, index |-> -1, label |-> "", n |-> 0]

\* nothing was returned
NoRet == [raised |-> "", index |-> -1, label |-> "", n |-> 0]

\* a bug: the label is looked up one entry too low
_level_to_tuple_shifted(level) == Ret(level, LevelLabel(level - 1), 0)

_level_to_tuple(level) == Ret(level, LevelLabel(level), 0)

\* a bug: the relative level alone decides, as in the legacy loop
classify_relative_only(self, g) ==
    IF self.gas_baseline # Null
    THEN IF self.gas_baseline.n = 0
         THEN Raise("ZeroDivisionError")
         ELSE _level_to_tuple(_assess_relative_quality(
                  Frac(g * self.gas_baseline.d, self.gas_baseline.n)))
    ELSE Ret(CALIBRATING, "Need Baseline", 0)

\* lines 272-287: the classification of g against self.gas_baseline
classify(self, g) ==
    IF self.gas_baseline # Null
    THEN IF self.gas_baseline.n = 0
         THEN Raise("ZeroDivisionError")             \* gas_resistance / 0.0
         ELSE LET absolute_level == _assess_absolute_quality(g)
                  ratio == Frac(g * self.gas_baseline.d, self.gas_baseline.n)
                  relative_level == _assess_relative_quality(ratio)
                  final_level == Min(absolute_level, relative_level)
              IN  _level_to_tuple(final_level)
    ELSE Ret(CALIBRATING, "Need Baseline", 0)

\* a bug: the end of the burn-in window compared with <=
in_burn_in_le(c, elapsed_time) == elapsed_time <= Secs(c.burn_in_duration)

\* a bug: the burn-in window is not observed
in_burn_in_skipped(c, elapsed_time) == elapsed_time < 0

\* a bug: the burn-in is measured to the end of the sampling window
in_burn_in_through_sampling(c, elapsed_time) ==
    elapsed_time < Secs(c.burn_in_duration + c.baseline_sampling_duration)

\* elapsed_time < self.burn_in_duration (lines 218, 224)
in_burn_in(c, elapsed_time) == elapsed_time < Secs(c.burn_in_duration)

\* a bug: the end of the sampling window compared with <=
in_sampling_le(c, elapsed_time) ==
    elapsed_time <= Secs(c.burn_in_duration + c.baseline_sampling_duration)

\* a bug: the sampling window is measured without the burn-in before it
in_sampling_short(c, elapsed_time) ==
    elapsed_time < Secs(c.baseline_sampling_duration)

\* a bug: the sampling window never ends
in_sampling_unbounded(c, elapsed_time) == elapsed_time >= 0 \/ elapsed_time < 0

\* elapsed_time < self.burn_in_duration + self.baseline_sampling_duration (line 229)
in_sampling(c, elapsed_time) ==
    elapsed_time < Secs(c.burn_in_duration + c.baseline_sampling_duration)

\* sum(readings) / len(readings)
Mean(readings) == Frac(SumSeq(readings), Len(readings))

\* a bug: a recalibration removes the persisted record
update_unlinking(c, self, file0, g, heat_stable, t1, t2, t3, outcome, partial) ==
    LET recal == should_recalibrate(c, self, t2)
        s1 == IF recal THEN trigger_recalibration(self, t3) ELSE self
        f == IF recal THEN Absent ELSE file0
        elapsed_time == t1 - s1.current_calibration_start_time
        out(s, fl, r, saved, lg) ==
            [self |-> s, file |-> fl, ret |-> r, recalibrated |-> recal,
             saved |-> saved, log |-> lg, killed |-> saved /\ outcome = "crash"]
    IN  IF ~heat_stable
        THEN IF in_burn_in(c, elapsed_time)
             THEN out(s1, f, Ret(CALIBRATING, "Burn-in (Gas)", 0), FALSE, "")
             ELSE out(s1, f, Ret(CALIBRATING, "Gas Heating", 0), FALSE, "")
        ELSE IF in_burn_in(c, elapsed_time)
        THEN out(s1, f, Ret(CALIBRATING, "Burn-in (%ds)",
                            IntSeconds(Secs(c.burn_in_duration) - elapsed_time)),
                 FALSE, "")
        ELSE IF in_sampling(c, elapsed_time)
        THEN LET s2 == [s1 EXCEPT !.baseline_gas_readings = Append(@, g)]
             IN  out(s2, f, Ret(CALIBRATING, "Baseline (%d)", Len(s2.baseline_gas_readings)),
                     FALSE, "")
        ELSE IF s1.gas_baseline = Null
        THEN IF s1.baseline_gas_readings = <<>>
             THEN out(s1, f, Ret(CALIBRATING, "Baseline Fail", 0), FALSE, "")
             ELSE LET s2 == [s1 EXCEPT !.gas_baseline = Mean(s1.baseline_gas_readings),
                                       !.time_baseline_established = t1]
                      sv == save_baseline(s2, f, outcome, partial)
                      s3 == [s2 EXCEPT !.baseline_gas_readings = <<>>]
                  IN  IF outcome = "crash"
                      THEN out(s2, sv.file, NoRet, TRUE, "")
                      ELSE out(s3, sv.file, classify(s3, g), TRUE,
                               ValidationLog(c.clean_air_min, c.clean_air_max, s2.gas_baseline))
        ELSE out(s1, f, classify(s1, g), FALSE, "")

\* update(g, heat_stable): t1, t2, t3 are the clock readings at lines 208, 178, 188
update(c, self, f, g, heat_stable, t1, t2, t3, outcome, partial) ==
    LET recal == should_recalibrate(c, self, t2)
        s1 == IF recal THEN trigger_recalibration(self, t3) ELSE self
        elapsed_time == t1 - s1.current_calibration_start_time
        out(s, fl, r, saved, lg) ==
            [self |-> s, file |-> fl, ret |-> r, recalibrated |-> recal,
             saved |-> saved, log |-> lg, killed |-> saved /\ outcome = "crash"]
    IN  IF ~heat_stable
        THEN IF in_burn_in(c, elapsed_time)
             THEN out(s1, f, Ret(CALIBRATING, "Burn-in (Gas)", 0), FALSE, "")
             ELSE out(s1, f, Ret(CALIBRATING, "Gas Heating", 0), FALSE, "")
        ELSE IF in_burn_in(c, elapsed_time)
        THEN out(s1, f, Ret(CALIBRATING, "Burn-in (%ds)",
                            IntSeconds(Secs(c.burn_in_duration) - elapsed_time)),
                 FALSE, "")
        ELSE IF in_sampling(c, elapsed_time)
        THEN LET s2 == [s1 EXCEPT !.baseline_gas_readings = Append(@, g)]
             IN  out(s2, f, Ret(CALIBRATING, "Baseline (%d)", Len(s2.baseline_gas_readings)),
                     FALSE, "")
        ELSE IF s1.gas_baseline = Null
        THEN IF s1.baseline_gas_readings = <<>>
             THEN out(s1, f, Ret(CALIBRATING, "Baseline Fail", 0), FALSE, "")
             ELSE LET s2 == [s1 EXCEPT !.gas_baseline = Mean(s1.baseline_gas_readings),
                                       !.time_baseline_established = t1]
                      sv == save_baseline(s2, f, outcome, partial)
                      s3 == [s2 EXCEPT !.baseline_gas_readings = <<>>]
                  IN  IF outcome = "crash"
                      THEN out(s2, sv.file, NoRet, TRUE, "")
                      ELSE out(s3, sv.file, classify(s3, g), TRUE,
                               ValidationLog(c.clean_air_min, c.clean_air_max, s2.gas_baseline))
        ELSE out(s1, f, classify(s1, g), FALSE, "")

\* the dict get_baseline_info() returns; none stands for None
InfoDict(b, kohms, ts, age, valid) ==
    [none |-> FALSE, baseline_ohms |-> b, baseline_kohms |-> kohms, timestamp |-> ts,
     age_hours |-> age, is_valid |-> valid]

NoneInfo ==
    [none |-> TRUE, baseline_ohms |-> Null, baseline_kohms |-> Null, timestamp |-> 0,
     age_hours |-> Null, is_valid |-> FALSE]

\* a bug: the age left in seconds
get_baseline_info_age_seconds(c, self, t1, t2) ==
    IF self.gas_baseline = Null
    THEN NoneInfo
    ELSE InfoDict(self.gas_baseline,
                  Frac(self.gas_baseline.n, self.gas_baseline.d * 1000),
                  self.time_baseline_established,
                  Frac(t1 - self.time_baseline_established, Secs(1)),
                  ~should_recalibrate(c, self, t2))

\* get_baseline_info(): t1 and t2 are the clock readings at lines 360 and 178
get_baseline_info(c, self, t1, t2) ==
    IF self.gas_baseline = Null
    THEN NoneInfo
    ELSE InfoDict(self.gas_baseline,
                  Frac(self.gas_baseline.n, self.gas_baseline.d * 1000),
                  self.time_baseline_established,
                  Frac(t1 - self.time_baseline_established, Secs(SecondsPerHour)),
                  ~should_recalibrate(c, self, t2))

\* a bug: the start of the cycle is not back-dated after a load
construct_not_backdated(c, f, t0, t1, t2) ==
    load_baseline(c, [gas_baseline |-> Null,
                      time_baseline_established |-> 0,
                      current_calibration_start_time |-> t0,
                      baseline_gas_readings |-> <<>>], f, t1)

\* a bug: a loaded baseline is stamped with the time of the load
construct_restamped(c, f, t0, t1, t2) ==
    LET fresh == [gas_baseline |-> Null,
                  time_baseline_established |-> 0,
                  current_calibration_start_time |-> t0,
                  baseline_gas_readings |-> <<>>]
        r == load_baseline(c, fresh, f, t1)
    IN  IF r.outcome = "True"
        THEN [r EXCEPT !.self.current_calibration_start_time =
                  t2 - Secs(c.burn_in_duration + c.baseline_sampling_duration),
                       !.self.time_baseline_established = t2]
        ELSE r

\* __init__ (lines 80-90): t0, t1, t2 are the clock readings at lines 82, 113, 89
construct(c, f, t0, t1, t2) ==
    LET fresh == [gas_baseline |-> Null,
                  time_baseline_established |-> 0,
                  current_calibration_start_time |-> t0,
                  baseline_gas_readings |-> <<>>]
        r == load_baseline(c, fresh, f, t1)
    IN  IF r.outcome = "True"
        THEN [r EXCEPT !.self.current_calibration_start_time =
                  t2 - Secs(c.burn_in_duration + c.baseline_sampling_duration)]
        ELSE r

-----------------------------------------------------------------------------
(* sensor.py: the legacy polling loop *)
(* Its module-level constants BURN_IN_DURATION_S, BASELINE_SAMPLING_DURATION_S,    *)
(* RECALIBRATION_INTERVAL_S, TYPICAL_CLEAN_AIR_MIN/MAX and the literal 24 of its   *)
(* age test are read from the record c, its globals from the record self.          *)

GOOD_AIR_THRESHOLD_RATIO == Frac(135, 100)
POOR_AIR_THRESHOLD_RATIO == Frac(70, 100)

\* load_baseline() of sensor.py (lines 65-99), the clock reading t at line 78
sensor_load_baseline(c, self, f, t) ==
    LET no(lg, rd) == [outcome |-> "False", self |-> self, log |-> lg, read113 |-> rd]
        saved_baseline == f.baseline
        saved_timestamp == f.timestamp
        loaded == [self EXCEPT !.gas_baseline = saved_baseline,
                               !.time_baseline_established = saved_timestamp.n]
    IN  IF f.kind = "absent" THEN no("", FALSE)                       \* line 68
        ELSE IF f.kind \in {"empty", "malformed"} THEN no("", FALSE)  \* line 96
        ELSE IF f.kind = "nonobject"
             THEN [outcome |-> "AttributeError", self |-> self, log |-> "",
                   read113 |-> FALSE]
        ELSE IF ~(Truthy(saved_baseline) /\ Truthy(saved_timestamp))  \* line 75
             THEN no("", FALSE)
        ELSE IF saved_timestamp.t # "num"
             THEN [outcome |-> "TypeError", self |-> self, log |-> "", read113 |-> TRUE]
        ELSE IF t - saved_timestamp.n < c.baseline_max_age_hours * Secs(SecondsPerHour)
             THEN IF saved_baseline.t # "num"                         \* line 82
                  THEN [outcome |-> "ValueError", self |-> loaded, log |-> "",
                        read113 |-> TRUE]
                  ELSE [outcome |-> "True", self |-> loaded,
                        log |-> IF FracLT(saved_baseline, Num(c.clean_air_min)) THEN "low"
                                ELSE IF FracGT(saved_baseline, Num(c.clean_air_max))
                                     THEN "very clean"
                                ELSE "",
                        read113 |-> TRUE]
        ELSE no("too old", TRUE)

\* save_baseline() of sensor.py (lines 101-114)
sensor_save_baseline(self, f, outcome, partial) ==
    IF self.gas_baseline # Null
    THEN LET data == Object(self.gas_baseline,
                            Num(self.time_baseline_established),
                            Readable(Num(self.time_baseline_established)))
         IN  IF outcome = "ok" THEN [file |-> data, attempted |-> TRUE, ok |-> TRUE]
             ELSE IF outcome = "open_error"
                  THEN [file |-> f, attempted |-> TRUE, ok |-> FALSE]
             ELSE [file |-> partial, attempted |-> TRUE, ok |-> FALSE]
    ELSE [file |-> f, attempted |-> FALSE, ok |-> FALSE]

\* the start of the script (lines 60-63, 117-120): t0, t1, t2 are the clock
\* readings at lines 60, 78 and 120
sensor_start(c, f, t0, t1, t2) ==
    LET globals == [gas_baseline |-> Null,
                    time_baseline_established |-> 0,
                    current_calibration_start_time |-> t0,
                    baseline_gas_readings |-> <<>>]
        baseline_loaded == sensor_load_baseline(c, globals, f, t1)
    IN  IF baseline_loaded.outcome = "True"
        THEN [baseline_loaded EXCEPT !.self.current_calibration_start_time =
                  t2 - Secs(c.burn_in_duration + c.baseline_sampling_duration)]
        ELSE baseline_loaded

\* one pass of the main loop (lines 179-278) in which the sensor gives the data
\* (g, heat_stable); current_time is the one clock reading of the pass (line 180)
sensor_loop(c, self, f, g, heat_stable, current_time, outcome, partial) ==
    LET recal == /\ self.gas_baseline # Null
                 /\ c.recalibration_interval > 0
                 /\ current_time - self.time_baseline_established
                       > Secs(c.recalibration_interval)
        s1 == IF recal
              THEN [gas_baseline |-> Null,
                    time_baseline_established |-> 0,
                    current_calibration_start_time |-> current_time,
                    baseline_gas_readings |-> <<>>]
              ELSE self
        elapsed_time_current_phase == current_time - s1.current_calibration_start_time
        score(s) ==
            IF s.gas_baseline.n = 0 THEN Raise("ZeroDivisionError")
            ELSE LET ratio == Frac(g * s.gas_baseline.d, s.gas_baseline.n)
                 IN  IF FracGT(ratio, GOOD_AIR_THRESHOLD_RATIO) THEN Ret(3, "Good", 0)
                     ELSE IF FracLT(ratio, POOR_AIR_THRESHOLD_RATIO) THEN Ret(1, "Poor", 0)
                     ELSE Ret(2, "Moderate", 0)
        out(s, fl, r, saved, lg) ==
            [self |-> s, file |-> fl, ret |-> r, recalibrated |-> recal,
             saved |-> saved, log |-> lg, killed |-> saved /\ outcome = "crash"]
    IN  IF heat_stable
        THEN IF elapsed_time_current_phase < Secs(c.burn_in_duration)
             THEN out(s1, f, Ret(0, "Burn-in (%ds)",
                                 IntSeconds(Secs(c.burn_in_duration)
                                               - elapsed_time_current_phase)),
                      FALSE, "")
             ELSE IF elapsed_time_current_phase
                        < Secs(c.burn_in_duration + c.baseline_sampling_duration)
             THEN LET s2 == [s1 EXCEPT !.baseline_gas_readings = Append(@, g)]
                  IN  out(s2, f, Ret(0, "Baseline (%d)", Len(s2.baseline_gas_readings)),
                          FALSE, "")
             ELSE IF s1.gas_baseline = Null
             THEN IF s1.baseline_gas_readings # <<>>
                  THEN LET s2 == [s1 EXCEPT
                                    !.gas_baseline = Mean(s1.baseline_gas_readings),
                                    !.time_baseline_established = current_time]
                           sv == sensor_save_baseline(s2, f, outcome, partial)
                           s3 == [s2 EXCEPT !.baseline_gas_readings = <<>>]
                       IN  IF outcome = "crash"
                           THEN out(s2, sv.file, NoRet, TRUE, "")
                           ELSE out(s3, sv.file, score(s3), TRUE,
                                    ValidationLog(c.clean_air_min, c.clean_air_max,
                                                  s2.gas_baseline))
                  ELSE out(s1, f, Ret(0, "Baseline Fail", 0), FALSE, "")
             ELSE out(s1, f, score(s1), FALSE, "")
        ELSE IF elapsed_time_current_phase < Secs(c.burn_in_duration)
             THEN out(s1, f, Ret(0, "Burn-in (Gas)", 0), FALSE, "")
             ELSE out(s1, f, Ret(0, "Gas Heating", 0), FALSE, "")

-----------------------------------------------------------------------------
(* data_logger.DataLogger *)

\* a string other than a formatted timestamp
Text(s) == [t |-> "text", s |-> s]

\* the CSV file: whether it exists, and its rows in order (no row: size 0)
NoCsv == [exists |-> FALSE, rows |-> <<>>]
Csv(rows) == [exists |-> TRUE, rows |-> rows]

DEFAULT_COLUMNS ==
    <<"timestamp", "temperature_c", "humidity_rh", "pressure_hpa",
      "gas_resistance_ohms", "air_quality_index", "air_quality_label">>

RECURSIVE Pow10(_)
Pow10(k) == IF k = 0 THEN 1 ELSE 10 * Pow10(k - 1)

\* a bug: the digits after the last one kept are cut off
round_down(v, ndigits) == Frac((Pow10(ndigits) * v.n) \div v.d, Pow10(ndigits))

\* round(v, ndigits) of a non-negative number: the nearest multiple of
\* 10^-ndigits, a tie going to the even one
round(v, ndigits) ==
    LET q == (Pow10(ndigits) * v.n) \div v.d
        r == (Pow10(ndigits) * v.n) % v.d
        up == 2 * r > v.d \/ (2 * r = v.d /\ q % 2 = 1)
    IN  Frac(IF up THEN q + 1 ELSE q, Pow10(ndigits))

\* datetime.now().strftime('%Y-%m-%d %H:%M:%S') at clock reading t
strftime(t) == Readable(Num(t))

\* csv.writer(f).writerow(row): the cells as written, None as the empty string
writerow(row) == [i \in DOMAIN row |-> IF row[i] = Null THEN Text("") ELSE row[i]]

\* the header row
HeaderRow == writerow([i \in DOMAIN DEFAULT_COLUMNS |-> Text(DEFAULT_COLUMNS[i])])

\* how open() and the write can end
LogOutcomes == {"ok", "open_error", "write_error"}

\* a bug: the header is written over a file that has rows
_initialize_file_always(f, outcome) ==
    IF outcome = "ok" THEN [file |-> Csv(<<HeaderRow>>), raised |-> ""]
    ELSE IF outcome = "open_error" THEN [file |-> f, raised |-> "IOError"]
    ELSE [file |-> Csv(<<>>), raised |-> "IOError"]

\* _initialize_file(): open(.., 'w') truncates, so a failed write leaves size 0
_initialize_file(f, outcome) ==
    LET write_header == ~f.exists \/ f.rows = <<>>
    IN  IF ~write_header THEN [file |-> f, raised |-> ""]
        ELSE IF outcome = "ok" THEN [file |-> Csv(<<HeaderRow>>), raised |-> ""]
        ELSE IF outcome = "open_error" THEN [file |-> f, raised |-> "IOError"]
        ELSE [file |-> Csv(<<>>), raised |-> "IOError"]

\* the arguments of log_reading(), and a dict of log_batch() (a key the dict does
\* not have is Missing)
Reading(ts, t, h, p, g, i, l) ==
    [timestamp |-> ts, temperature |-> t, humidity |-> h, pressure |-> p,
     gas_resistance |-> g, air_quality_index |-> i, air_quality_label |-> l]

\* log_reading(...) at clock reading t: open(.., 'a') creates the file; an IOError
\* is caught and logged
log_reading(f, reading, t, outcome) ==
    LET row == <<strftime(t),
                 round(reading.temperature, 2),
                 round(reading.humidity, 2),
                 round(reading.pressure, 2),
                 IF reading.gas_resistance # Null
                 THEN round(reading.gas_resistance, 2) ELSE Null,
                 reading.air_quality_index,
                 reading.air_quality_label>>
    IN  IF outcome = "ok" THEN Csv(Append(f.rows, writerow(row)))
        ELSE IF outcome = "open_error" THEN f
        ELSE Csv(f.rows)

\* dict.get(key, default)
dict_get(v, default) == IF v = Missing THEN default ELSE v

\* the rows the loop of log_batch() writes (lines 116-131): reading[key] of a
\* missing key raises KeyError, which ends the loop
RECURSIVE batch_rows(_, _)
batch_rows(readings, t) ==
    IF readings = <<>> THEN <<>>
    ELSE LET reading == Head(readings)
             g == dict_get(reading.gas_resistance, Null)
             row == <<dict_get(reading.timestamp, strftime(t)),
                      round(reading.temperature, 2),
                      round(reading.humidity, 2),
                      round(reading.pressure, 2),
                      IF Truthy(g) THEN round(reading.gas_resistance, 2) ELSE Null,
                      dict_get(reading.air_quality_index, Null),
                      dict_get(reading.air_quality_label, Text("Unknown"))>>
         IN  IF Missing \in {reading.temperature, reading.humidity, reading.pressure}
             THEN <<>>
             ELSE <<writerow(row)>> \o batch_rows(Tail(readings), t)

\* log_batch(readings) at clock reading t; IOError and KeyError are caught, and the
\* rows written before a KeyError reach the file when it is closed
log_batch(f, readings, t, outcome) ==
    IF outcome = "ok" THEN Csv(f.rows \o batch_rows(readings, t))
    ELSE IF outcome = "open_error" THEN f
    ELSE Csv(f.rows)

\* the finally clause of batch_mode() (lines 204-206)
batch_mode_exit(f, batch, t, outcome) ==
    IF batch # <<>> THEN log_batch(f, batch, t, outcome) ELSE f

\* no DataLogger was constructed
NoLogger == [constructed |-> FALSE, batch_open |-> FALSE, batch |-> <<>>]

NoReading == Reading(Missing, Missing, Missing, Missing, Missing, Missing, Missing)

\* no DataLogger call was made; fresh: the logger was constructed on a new file;
\* clean: no write failed since and no batch was written; logged: while fresh and
\* clean, the log_reading() calls made and the clock readings they took
NoLogCall ==
    [op |-> "", reading |-> NoReading, batch |-> <<>>, by_exception |-> FALSE,
     at |-> 0, outcome |-> "", raised |-> "", fresh |-> FALSE, logged |-> <<>>,
     clean |-> FALSE]


-----------------------------------------------------------------------------
(* config.Config *)

\* a YAML mapping: m maps its keys, strings given as sequences of characters, to
\* values
Mapping(m) == [t |-> "map", m |-> m]

\* isinstance(value, dict)
isinstance_dict(value) == value.t = "map"

\* the position of the first sep in s, 0 when there is none
RECURSIVE find(_, _, _)
find(s, sep, i) ==
    IF i > Len(s) THEN 0
    ELSE IF s[i] = sep THEN i
    ELSE find(s, sep, i + 1)

\* s.split(sep)
RECURSIVE split(_, _)
split(s, sep) ==
    LET i == find(s, sep, 1)
    IN  IF i = 0 THEN <<s>>
        ELSE <<SubSeq(s, 1, i - 1)>> \o split(SubSeq(s, i + 1, Len(s)), sep)

\* the loop of get() (lines 56-60) over the keys left
RECURSIVE get_loop(_, _, _)
get_loop(value, keys, default) ==
    IF keys = <<>> THEN value
    ELSE IF isinstance_dict(value) /\ Head(keys) \in DOMAIN value.m
    THEN get_loop(value.m[Head(keys)], Tail(keys), default)
    ELSE default

\* a bug: the path is looked up as one key
get_unsplit(conf, key_path, default) ==
    [keys |-> <<key_path>>, raised |-> "", value |-> get_loop(conf, <<key_path>>, default)]

\* Config.get(key_path, default) on the loaded document conf
get(conf, key_path, default) ==
    LET keys == split(key_path, ".")
    IN  [keys |-> keys, raised |-> "", value |-> get_loop(conf, keys, default)]

\* Config.get() was not called
NoGet == [called |-> FALSE, key_path |-> <<>>, default |-> Null, keys |-> <<>>,
          raised |-> "", value |-> Null]

\* the collaborators are not in use
CollaboratorsUnused ==
    /\ csv = NoCsv
    /\ logger = NoLogger
    /\ lcall = NoLogCall
    /\ _config = Null
    /\ got = NoGet

-----------------------------------------------------------------------------
(* The state machine *)

\* no call has returned since the clock last ticked; seq counts the calls since then;
\* boot is what load_baseline() gave the constructor while update() has not been
\* called on the object, and after is the boot the call found
NoCall == [op |-> "", boot |-> "", after |-> "", seq |-> 0, g |-> 0, heat_stable |-> FALSE,
           ret |-> NoRet, outcome |-> "", recalibrated |-> FALSE, saved |-> FALSE]

\* get_baseline_info() was not called since the object was built or updated
\* (at and at178 are the clock readings the call took at lines 360 and 178, before
\* is the reading at line 360 of the call before it)
NoInfo == [called |-> FALSE, at |-> 0, at178 |-> 0, before |-> -1, dict |-> NoneInfo]

\* the ticks the clock has run since ClockStart
TicksRun == now - ClockStart

\* what a failed json.dump leaves of the file open() truncated
Partials == {Empty}

\* the clock advances by at most MaxSkew ticks while one call runs
Skews == {dd \in (0..MaxSkew) \X (0..MaxSkew) : dd[1] + dd[2] <= MaxSkew}

\* how a write can end: the outcome, and what a failed json.dump leaves
Writes == {w \in SaveOutcomes \X Partials : w[2] # Empty => w[1] = "write_error"}

\* AirQualityCalculator(...) at clock t0, the clock advancing by d1 before line 113
\* and by d2 before line 89: the object, the record of the call and the clock after
Constructor(c, f, prev, t0, d1, d2) ==
    LET r == construct(c, f, t0, t0 + d1, t0 + d1 + d2)
    IN  [clock_ok |-> (d1 > 0 => r.read113) /\ (d2 > 0 => r.outcome = "True"),
         now |-> t0 + d1 + d2,
         status |-> IF r.outcome \in {"True", "False"} THEN "running" ELSE "crashed",
         self |-> r.self,
         call |-> [op |-> "init", boot |-> r.outcome, after |-> prev.boot, seq |-> prev.seq + 1,
                   g |-> 0, heat_stable |-> FALSE, ret |-> NoRet,
                   outcome |-> r.outcome, recalibrated |-> FALSE, saved |-> FALSE]]

\* a calculator is constructed with arguments among configs
InitWith(configs) ==
    \E c \in configs, f \in InitialFiles, dd \in Skews :
        \E st \in {Constructor(c, f, NoCall, ClockStart, dd[1], dd[2])} :
            /\ st.clock_ok
            /\ cfg = c
            /\ file = f
            /\ now = st.now
            /\ status = st.status
            /\ gas_baseline = st.self.gas_baseline
            /\ time_baseline_established = st.self.time_baseline_established
            /\ current_calibration_start_time = st.self.current_calibration_start_time
            /\ baseline_gas_readings = st.self.baseline_gas_readings
            /\ info = NoInfo
            /\ call = st.call
            /\ CollaboratorsUnused

Init == InitWith(Configs)

\* the process is started again: a fresh object on the same file
Restart(d1, d2) ==
    \E st \in {Constructor(cfg, file, call, now, d1, d2)} :
        /\ call.seq < MaxCalls
        /\ TicksRun + d1 + d2 <= MaxTicks
        /\ st.clock_ok
        /\ now' = st.now
        /\ status' = st.status
        /\ gas_baseline' = st.self.gas_baseline
        /\ time_baseline_established' = st.self.time_baseline_established
        /\ current_calibration_start_time' = st.self.current_calibration_start_time
        /\ baseline_gas_readings' = st.self.baseline_gas_readings
        /\ info' = NoInfo
        /\ call' = st.call
        /\ UNCHANGED <<cfg, file>>
        /\ UNCHANGED collaborators

\* update(g, heat_stable) is called
Update(g, heat_stable, d1, d2, outcome, partial) ==
    /\ status = "running"
    /\ call.seq < MaxCalls
    /\ TicksRun + d1 + d2 <= MaxTicks
    /\ d1 > 0 => reads_clock_178(cfg, Self)
    /\ d2 > 0 => reads_clock_178(cfg, Self)
    /\ outcome # "ok" => (heat_stable /\ gas_baseline = Null /\ baseline_gas_readings # <<>>)
    /\ \E r \in {update(cfg, Self, file, g, heat_stable, now, now + d1, now + d1 + d2,
                        outcome, partial)} :
        /\ d2 > 0 => r.recalibrated
        /\ outcome # "ok" => r.saved
        /\ Len(r.self.baseline_gas_readings) <= MaxSamples
        /\ now' = now + d1 + d2
        /\ file' = r.file
        /\ gas_baseline' = r.self.gas_baseline
        /\ time_baseline_established' = r.self.time_baseline_established
        /\ current_calibration_start_time' = r.self.current_calibration_start_time
        /\ baseline_gas_readings' = r.self.baseline_gas_readings
        /\ call' = [op |-> IF r.killed THEN "update_killed" ELSE "update",
                    boot |-> "", after |-> call.boot, seq |-> call.seq + 1,
                    g |-> g, heat_stable |-> heat_stable, ret |-> r.ret,
                    outcome |-> IF r.saved THEN outcome ELSE "",
                    recalibrated |-> r.recalibrated, saved |-> r.saved]
        /\ status' = IF r.killed THEN "crashed" ELSE status
        /\ info' = NoInfo
        /\ UNCHANGED cfg
        /\ UNCHANGED collaborators

\* time passes between calls
Tick ==
    /\ TicksRun < MaxTicks
    /\ now' = now + 1
    /\ call' = [NoCall EXCEPT !.boot = call.boot]
    /\ UNCHANGED <<cfg, file, status, gas_baseline, time_baseline_established,
                   current_calibration_start_time, baseline_gas_readings, info>>
    /\ UNCHANGED collaborators

\* get_baseline_info() is called, the clock advancing by d before line 178
GetBaselineInfo(d) ==
    /\ status = "running"
    /\ call.seq < MaxCalls
    /\ TicksRun + d <= MaxTicks
    /\ d > 0 => reads_clock_178(cfg, Self)
    /\ now' = now + d
    /\ info' = [called |-> TRUE, at |-> now, at178 |-> now + d,
                before |-> IF info.called THEN info.at ELSE -1,
                dict |-> get_baseline_info(cfg, Self, now, now + d)]
    /\ call' = [NoCall EXCEPT !.op = "info", !.boot = call.boot, !.after = call.boot,
                              !.seq = call.seq + 1]
    /\ UNCHANGED <<cfg, file, status, gas_baseline, time_baseline_established,
                   current_calibration_start_time, baseline_gas_readings>>
    /\ UNCHANGED collaborators

Next ==
    \/ \E dd \in Skews : Restart(dd[1], dd[2])
    \/ \E g \in Readings, h \in BOOLEAN, dd \in Skews, w \in Writes :
          Update(g, h, dd[1], dd[2], w[1], w[2])
    \/ Tick

Spec == Init /\ [][Next]_vars

-----------------------------------------------------------------------------
(* The driver loop polling one calculator for ever *)

\* no clock reading from now on changes what update() does with the clock: both
\* windows have elapsed, and no recalibration can fall due
TimerSaturated ==
    /\ now - current_calibration_start_time
          >= Secs(cfg.burn_in_duration + cfg.baseline_sampling_duration)
    /\ gas_baseline = Null \/ cfg.recalibration_interval <= 0

\* time passes beyond the ticks the model counts: in a timer-saturated state every
\* later clock reading stands for the same behaviour, so the clock stays
LateTick ==
    /\ TicksRun = MaxTicks
    /\ TimerSaturated
    /\ call' = [NoCall EXCEPT !.boot = call.boot]
    /\ UNCHANGED <<cfg, now, file, status, gas_baseline, time_baseline_established,
                   current_calibration_start_time, baseline_gas_readings, info>>
    /\ UNCHANGED collaborators

\* the driver calls update() with what the sensor gives; once both windows have
\* elapsed without a baseline and without a sample, the heater is stable
PolledUpdate(g, heat_stable, d1, d2, outcome, partial) ==
    /\ (/\ gas_baseline = Null
        /\ baseline_gas_readings = <<>>
        /\ now - current_calibration_start_time
              >= Secs(cfg.burn_in_duration + cfg.baseline_sampling_duration))
          => heat_stable
    /\ Update(g, heat_stable, d1, d2, outcome, partial)

Polling ==
    \E g \in Readings, h \in BOOLEAN, dd \in Skews, w \in Writes :
        PolledUpdate(g, h, dd[1], dd[2], w[1], w[2])

NextPolling ==
    \/ Polling
    \/ Tick
    \/ LateTick

\* the loop never stops: time keeps passing and update() keeps being called
SpecPolling ==
    /\ Init
    /\ [][NextPolling]_vars
    /\ WF_vars(Tick \/ LateTick)
    /\ WF_vars(Polling)

-----------------------------------------------------------------------------
(* A driver loop that calls update(g, true) once at every clock value *)

\* the loop's call: the heater is stable, the process is not killed, and the call
\* takes less than a tick
CycleUpdate(g, outcome, partial) ==
    /\ call.op # "update"
    /\ outcome # "crash"
    /\ Update(g, TRUE, 0, 0, outcome, partial)

CycleUpdates ==
    \E g \in Readings, w \in Writes : CycleUpdate(g, w[1], w[2])

\* the loop sleeps one tick after its call. Past the ticks the model counts the
\* clock stays and the calculator's timestamps move back instead: update() reads
\* them only as differences from the clock. In a timer-saturated state they stay
\* too, as in LateTick.
CycleTick ==
    /\ call.op = "update"
    /\ IF TicksRun < MaxTicks
       THEN /\ now' = now + 1
            /\ UNCHANGED <<time_baseline_established, current_calibration_start_time>>
       ELSE /\ now' = now
            /\ IF TimerSaturated
               THEN UNCHANGED <<time_baseline_established, current_calibration_start_time>>
               ELSE /\ current_calibration_start_time' = current_calibration_start_time - 1
                    /\ time_baseline_established' =
                          IF gas_baseline = Null THEN time_baseline_established
                          ELSE time_baseline_established - 1
    /\ call' = [NoCall EXCEPT !.boot = call.boot]
    /\ UNCHANGED <<cfg, file, status, gas_baseline, baseline_gas_readings, info>>
    /\ UNCHANGED collaborators

NextCycle ==
    \/ CycleUpdates
    \/ CycleTick

\* the construction takes less than a tick too
InitCycle == Init /\ now = ClockStart

\* the loop never stops
SpecCycle ==
    /\ InitCycle
    /\ [][NextCycle]_vars
    /\ WF_vars(CycleTick)
    /\ WF_vars(CycleUpdates)

-----------------------------------------------------------------------------
(* A caller that also asks for the baseline information *)

NextInfo ==
    \/ \E d \in 0..MaxSkew : GetBaselineInfo(d)
    \/ \E g \in Readings, h \in BOOLEAN, dd \in Skews, w \in Writes :
          Update(g, h, dd[1], dd[2], w[1], w[2])
    \/ Tick

SpecInfo == Init /\ [][NextInfo]_vars

-----------------------------------------------------------------------------
(* The unit tests' calculator: the baseline is assigned from outside *)

\* calculator.gas_baseline = 100000.0
TestBaselines == {100000, 140000}

\* the test assigns gas_baseline on the calculator its fixture has just built, on a
\* file that holds no baseline
SetBaseline(b) ==
    /\ status = "running"
    /\ call.boot = "False"
    /\ gas_baseline = Null
    /\ gas_baseline' = Num(b)
    /\ UNCHANGED <<cfg, now, file, status, time_baseline_established,
                   current_calibration_start_time, baseline_gas_readings, call, info>>
    /\ UNCHANGED collaborators

NextTest ==
    \/ \E b \in TestBaselines : SetBaseline(b)
    \/ \E g \in Readings, h \in BOOLEAN, dd \in Skews, w \in Writes :
          Update(g, h, dd[1], dd[2], w[1], w[2])
    \/ Tick

SpecTest == Init /\ [][NextTest]_vars

-----------------------------------------------------------------------------
(* A process that logs readings with a DataLogger *)

\* the calculator is not in use
CalculatorUnused ==
    /\ cfg = [burn_in_duration |-> 0, baseline_sampling_duration |-> 0,
              recalibration_interval |-> 0, baseline_max_age_hours |-> 1,
              clean_air_min |-> clean_air_min, clean_air_max |-> clean_air_max]
    /\ now = ClockStart
    /\ file = Absent
    /\ status = "unused"
    /\ gas_baseline = Null
    /\ time_baseline_established = 0
    /\ current_calibration_start_time = ClockStart
    /\ baseline_gas_readings = <<>>
    /\ call = NoCall
    /\ info = NoInfo

\* readings as the monitor logs them: a classified one, and one taken while the
\* calculator calibrates (no gas resistance, no index)
ClassifiedReading ==
    Reading(Missing, Frac(25556, 1000), Num(60), Frac(101325, 100), Num(100000),
            Num(GOOD), Text("Good"))
CalibratingReading ==
    Reading(Missing, Frac(255, 10), Num(60), Frac(101325, 100), Null,
            Null, Text("Calibrating"))
LogReadings == {ClassifiedReading, CalibratingReading}

\* the dicts put into a batch: also one with a gas resistance of 0 and no label,
\* and one without the key 'temperature'
ZeroGasReading ==
    Reading(Missing, Frac(255, 10), Num(60), Frac(101325, 100), Num(0),
            Num(POOR), Missing)
NoTemperatureReading ==
    Reading(Missing, Missing, Num(60), Frac(101325, 100), Num(100000),
            Num(GOOD), Text("Good"))
BatchReadings == {ClassifiedReading, ZeroGasReading, NoTemperatureReading}

\* a row that is not the header
ForeignRow == <<Text("id"), Text("value")>>

\* the file the first logger finds
InitialCsv ==
    {NoCsv, Csv(<<>>), Csv(<<HeaderRow>>), Csv(<<ForeignRow>>)}

InitLogger ==
    /\ CalculatorUnused
    /\ csv \in InitialCsv
    /\ logger = NoLogger
    /\ lcall = NoLogCall
    /\ _config = Null
    /\ got = NoGet

\* DataLogger(filename) is constructed, at the start or after a restart
NewLogger(outcome) ==
    \E r \in {_initialize_file(csv, outcome)} :
        /\ outcome # "ok" => (~csv.exists \/ csv.rows = <<>>)
        /\ csv' = r.file
        /\ logger' = [constructed |-> r.raised = "", batch_open |-> FALSE, batch |-> <<>>]
        /\ lcall' = [NoLogCall EXCEPT !.op = "init", !.at = now, !.outcome = outcome,
                                      !.raised = r.raised,
                                      !.fresh = ~csv.exists \/ csv.rows = <<>>,
                                      !.clean = r.raised = ""]
        /\ UNCHANGED <<calculator, _config, got>>

\* log_reading(...) is called
LogReading(reading, outcome) ==
    /\ logger.constructed
    /\ Len(csv.rows) < MaxRows
    /\ csv' = log_reading(csv, reading, now, outcome)
    /\ lcall' = [lcall EXCEPT !.op = "log_reading", !.reading = reading, !.batch = <<>>,
                              !.by_exception = FALSE, !.at = now, !.outcome = outcome,
                              !.raised = "",
                              !.logged =
                                  IF lcall.fresh /\ lcall.clean /\ outcome = "ok"
                                  THEN Append(@, [reading |-> reading, at |-> now])
                                  ELSE <<>>,
                              !.clean = @ /\ outcome = "ok"]
    /\ UNCHANGED <<calculator, logger, _config, got>>

\* with logger.batch_mode() as batch: the context is entered
BatchEnter ==
    /\ logger.constructed
    /\ ~logger.batch_open
    /\ logger' = [logger EXCEPT !.batch_open = TRUE, !.batch = <<>>]
    /\ lcall' = [lcall EXCEPT !.op = "batch_enter", !.reading = NoReading, !.batch = <<>>,
                              !.by_exception = FALSE, !.at = now, !.outcome = "",
                              !.raised = ""]
    /\ UNCHANGED <<calculator, csv, _config, got>>

\* batch.append(reading) inside the context
BatchAppend(reading) ==
    /\ logger.batch_open
    /\ Len(logger.batch) < MaxBatch
    /\ logger' = [logger EXCEPT !.batch = Append(@, reading)]
    /\ lcall' = [lcall EXCEPT !.op = "batch_append", !.reading = reading,
                              !.batch = logger'.batch, !.by_exception = FALSE,
                              !.at = now, !.outcome = "", !.raised = ""]
    /\ UNCHANGED <<calculator, csv, _config, got>>

\* the context is left, at its end or by an exception raised in its body
BatchExit(by_exception, outcome) ==
    /\ logger.batch_open
    /\ Len(csv.rows) + Len(logger.batch) <= MaxRows
    /\ outcome # "ok" => logger.batch # <<>>
    /\ csv' = batch_mode_exit(csv, logger.batch, now, outcome)
    /\ logger' = [logger EXCEPT !.batch_open = FALSE, !.batch = <<>>]
    /\ lcall' = [lcall EXCEPT !.op = "batch_exit", !.reading = NoReading,
                              !.batch = logger.batch, !.by_exception = by_exception,
                              !.at = now, !.outcome = outcome,
                              !.raised = IF by_exception THEN "Exception" ELSE "",
                              !.logged = IF logger.batch = <<>> THEN @ ELSE <<>>,
                              !.clean = @ /\ logger.batch = <<>>]
    /\ UNCHANGED <<calculator, _config, got>>

\* time passes between the logger's calls
LoggerTick ==
    /\ TicksRun < MaxLogTicks
    /\ now' = now + 1
    /\ lcall' = [lcall EXCEPT !.op = "", !.reading = NoReading, !.batch = <<>>,
                              !.by_exception = FALSE, !.at = 0, !.outcome = "",
                              !.raised = ""]
    /\ UNCHANGED <<cfg, file, status, gas_baseline, time_baseline_established,
                   current_calibration_start_time, baseline_gas_readings, call, info,
                   csv, logger, _config, got>>

NextLogger ==
    \/ \E o \in LogOutcomes : NewLogger(o)
    \/ \E r \in LogReadings, o \in LogOutcomes : LogReading(r, o)
    \/ BatchEnter
    \/ \E r \in BatchReadings : BatchAppend(r)
    \/ \E e \in BOOLEAN, o \in LogOutcomes : BatchExit(e, o)
    \/ LoggerTick

SpecLogger == InitLogger /\ [][NextLogger]_vars

-----------------------------------------------------------------------------
(* A process that reads its settings from a Config *)

\* the characters of the keys and paths
PathChars == {"a", "b", "."}

\* the strings of at most MaxPathLen characters
Paths == UNION {[1..k -> PathChars] : k \in 0..MaxPathLen}

\* the documents yaml.safe_load() gives: an empty file, a scalar, nested mappings
\* (with a null value, an empty mapping and a key that holds a dot)
Documents ==
    {Null,
     Num(5),
     Mapping((<<"a">> :> Mapping((<<"b">> :> Num(119)) @@ (<<"a">> :> Null)))
             @@ (<<"b">> :> Num(2))),
     Mapping((<<"a", ".", "b">> :> Num(3)) @@ (<<"a">> :> Num(1))
             @@ (<<>> :> Mapping(<<>> :> Text("x"))) @@ (<<"b">> :> Mapping(<<>>)))}

Defaults == {Null, Text("default")}

InitConfig ==
    /\ CalculatorUnused
    /\ csv = NoCsv
    /\ logger = NoLogger
    /\ lcall = NoLogCall
    /\ _config \in Documents
    /\ got = NoGet

\* config.get(key_path, default) is called
ConfigGet(key_path, default) ==
    \E r \in {get(_config, key_path, default)} :
        /\ got' = [called |-> TRUE, key_path |-> key_path, default |-> default,
                   keys |-> r.keys, raised |-> r.raised, value |-> r.value]
        /\ UNCHANGED <<calculator, csv, logger, lcall, _config>>

\* config.load() is called again, the file holding another document
ConfigLoad(doc) ==
    /\ _config' = doc
    /\ got' = NoGet
    /\ UNCHANGED <<calculator, csv, logger, lcall>>

NextConfig ==
    \/ \E p \in Paths, d \in Defaults : ConfigGet(p, d)
    \/ \E doc \in Documents : ConfigLoad(doc)

SpecConfig == InitConfig /\ [][NextConfig]_vars

-----------------------------------------------------------------------------
(* The absolute assessment called on its own *)

\* gas resistances up to MaxKOhms kOhm in steps of 1 kOhm, and the Ohm below and
\* above each of them
MaxKOhms == 200
AssessedReadings == {k * 1000 + d : k \in 0..MaxKOhms, d \in {-1, 0, 1}} \ {-1}

InitAssess ==
    /\ CalculatorUnused
    /\ CollaboratorsUnused

\* _assess_absolute_quality(g) is called and returns a level
AssessAbsolute(g) ==
    /\ call' = [NoCall EXCEPT !.op = "_assess_absolute_quality", !.g = g,
                              !.ret = Ret(_assess_absolute_quality(g), "", 0)]
    /\ UNCHANGED <<cfg, now, file, status, gas_baseline, time_baseline_established,
                   current_calibration_start_time, baseline_gas_readings, info>>
    /\ UNCHANGED collaborators

NextAssess == \E g \in AssessedReadings : AssessAbsolute(g)

SpecAssess == InitAssess /\ [][NextAssess]_vars

-----------------------------------------------------------------------------
(* A calculator whose writes never fail *)

\* update(g, heat_stable) is called, and the write it may make succeeds
WrittenUpdate(g, heat_stable, d1, d2) ==
    \E partial \in Partials : Update(g, heat_stable, d1, d2, "ok", partial)

NextWritten ==
    \/ \E dd \in Skews : Restart(dd[1], dd[2])
    \/ \E g \in Readings, h \in BOOLEAN, dd \in Skews : WrittenUpdate(g, h, dd[1], dd[2])
    \/ Tick

SpecWritten == Init /\ [][NextWritten]_vars

-----------------------------------------------------------------------------
(* A process that uses every operation of the calculator *)

NextAll ==
    \/ \E dd \in Skews : Restart(dd[1], dd[2])
    \/ \E g \in Readings, h \in BOOLEAN, dd \in Skews, w \in Writes :
          Update(g, h, dd[1], dd[2], w[1], w[2])
    \/ \E d \in 0..MaxSkew : GetBaselineInfo(d)
    \/ Tick

SpecAll == Init /\ [][NextAll]_vars

-----------------------------------------------------------------------------
(* Calculators that differ in their clean-air range *)

\* pairs (clean_air_min, clean_air_max)
CleanAirRanges == {<<clean_air_min, clean_air_max>>, <<150000, 160000>>}

\* the configuration c with another clean-air range
WithCleanAir(c, range) ==
    [c EXCEPT !.clean_air_min = range[1], !.clean_air_max = range[2]]

CleanAirConfigs == {WithCleanAir(c, range) : c \in Configs, range \in CleanAirRanges}

InitCleanAir == InitWith(CleanAirConfigs)

SpecCleanAir == InitCleanAir /\ [][Next]_vars

-----------------------------------------------------------------------------
(* Vocabulary of the properties *)

\* the time elapsed in the current calibration cycle, as a call starting now sees it
Elapsed == now - current_calibration_start_time

WindowsLength == Secs(cfg.burn_in_duration + cfg.baseline_sampling_duration)

\* the step is a call of update(g, heat_stable) that returned (or raised)
UpdateStep == call'.op = "update"
StableUpdateStep == call'.op = "update" /\ call'.heat_stable

\* the step is a construction of a calculator
InitStep == call'.op = "init"

\* the relative score of reading g against baseline b > 0, as the specification
\* states it: g/b > 1.35 is GOOD, g/b < 0.70 is POOR, MODERATE otherwise
RatioAbove(g, b, num, den) == g * b.d * den > num * b.n
RatioBelow(g, b, num, den) == g * b.d * den < num * b.n
SpecRelative(g, b) ==
    IF RatioAbove(g, b, 135, 100) THEN GOOD
    ELSE IF RatioBelow(g, b, 70, 100) THEN POOR
    ELSE MODERATE

\* the absolute score of reading g, as the specification states it
SpecAbsolute(g) ==
    IF g > 150000 \/ g > 100000 THEN GOOD
    ELSE IF g > 50000 THEN MODERATE
    ELSE POOR

\* update() classifies: a positive baseline is established before the call, both
\* windows have elapsed and no recalibration is due
Classifies ==
    /\ StableUpdateStep
    /\ gas_baseline # Null
    /\ gas_baseline.n > 0
    /\ Elapsed >= WindowsLength
    /\ ~call'.recalibrated

-----------------------------------------------------------------------------
(* C1 *)

-----------------------------------------------------------------------------
(* C2 *)

C2_WitnessSymmetric ==
    /\ call.op = "update"
    /\ gas_baseline # Null
    /\ gas_baseline.n > 0
    /\ SpecRelative(call.g, gas_baseline) = POOR
    /\ SpecAbsolute(call.g) = GOOD
    /\ call.ret = Ret(POOR, "Poor", 0)

-----------------------------------------------------------------------------
(* C3 *)

\* a recalibration is due at clock reading t
RecalibrationDueAt(t) ==
    /\ gas_baseline # Null
    /\ cfg.recalibration_interval > 0
    /\ t - time_baseline_established > Secs(cfg.recalibration_interval)

\* a recalibration is due when update() is called
RecalibrationDue == RecalibrationDueAt(now)

\* C3: a call of update() made when a recalibration is due resets the calibrator
\* first: the baseline is null after the call, the cycle starts at the clock reading
\* of the reset, no sample of the old cycle is kept (the buffer holds nothing but
\* the reading of this call, and that only when the call itself sampled it), and
\* the call returns level 0 whatever g and heat_stable are.
C3_Recalibration ==
    [][(UpdateStep /\ RecalibrationDue) =>
         /\ call'.recalibrated
         /\ gas_baseline' = Null
         /\ time_baseline_established' = 0
         /\ current_calibration_start_time' = now'
         /\ call'.ret.raised = ""
         /\ call'.ret.index = CALIBRATING
         /\ baseline_gas_readings' =
               IF call'.ret.label = "Baseline (%d)" THEN <<call'.g>> ELSE <<>>
         /\ file' = file]_vars

\* a call made when a recalibration was due returned level 0 for a heat-stable
\* reading that is GOOD against the baseline the file still holds
C3_Witness ==
    /\ call.op = "update"
    /\ call.recalibrated
    /\ call.heat_stable
    /\ call.ret.index = CALIBRATING
    /\ gas_baseline = Null
    /\ file.kind = "object"
    /\ file.baseline.t = "num"
    /\ file.baseline.n > 0
    /\ SpecRelative(call.g, file.baseline) = GOOD
    /\ SpecAbsolute(call.g) = GOOD

-----------------------------------------------------------------------------
(* C5 *)

\* the degenerate state: both windows have elapsed, no baseline, nothing sampled
Degenerate ==
    /\ gas_baseline = Null
    /\ baseline_gas_readings = <<>>
    /\ Elapsed >= WindowsLength

\* C5: update(g, true) called with both windows elapsed, gas_baseline null and an
\* empty sample buffer returns (0, "Baseline Fail"), raises nothing, and leaves
\* gas_baseline null and the buffer empty.
C5_BaselineFail ==
    [][(StableUpdateStep /\ Degenerate) =>
         /\ call'.ret = Ret(CALIBRATING, "Baseline Fail", 0)
         /\ gas_baseline' = Null
         /\ baseline_gas_readings' = <<>>
         /\ ~call'.saved
         /\ file' = file]_vars

\* a heat-stable call made exactly when the sampling window closed, with nothing
\* sampled, returned "Baseline Fail"
C5_Witness ==
    /\ call.op = "update"
    /\ call.heat_stable
    /\ call.ret = Ret(CALIBRATING, "Baseline Fail", 0)
    /\ gas_baseline = Null
    /\ baseline_gas_readings = <<>>
    /\ Elapsed = WindowsLength
    /\ WindowsLength > 0

-----------------------------------------------------------------------------
(* C4 *)

\* windows of some length have elapsed on a live calculator, and nothing was sampled
DegenerateWindow ==
    /\ status = "running"
    /\ Degenerate
    /\ Secs(cfg.burn_in_duration + cfg.baseline_sampling_duration) > 0

\* update() returned a level in 1..3 against an established baseline
Classified ==
    /\ call.op = "update"
    /\ gas_baseline # Null
    /\ call.ret.index \in {POOR, MODERATE, GOOD}

\* C4: once both windows have elapsed with no baseline and nothing sampled, a
\* calculator that is polled with heat_stable = true for ever eventually establishes
\* a baseline and returns a level in 1..3.
C4_NoLockup == DegenerateWindow ~> Classified

-----------------------------------------------------------------------------
(* C6 *)

\* C6: update() never raises and always returns (index, label) with index in 0..3.
C6_NeverRaises ==
    call.op = "update" => (call.ret.raised = "" /\ call.ret.index \in 0..3)

-----------------------------------------------------------------------------
(* C7 *)

\* the file holds what save_baseline() writes for the baseline in memory
SavedFromMemory ==
    /\ gas_baseline # Null
    /\ file = save_baseline(Self, file, "ok", Empty).file

\* C7: when the file holds the record save_baseline() wrote for the baseline b and
\* timestamp t in memory, a calculator constructed on that file while the record is
\* younger than baseline_max_age_hours has gas_baseline b and baseline timestamp t.
C7_RoundTrip ==
    [][(InitStep /\ SavedFromMemory
          /\ now' - time_baseline_established
               < cfg.baseline_max_age_hours * Secs(SecondsPerHour)) =>
         /\ call'.outcome = "True"
         /\ gas_baseline' = gas_baseline
         /\ time_baseline_established' = time_baseline_established]_vars

-----------------------------------------------------------------------------
(* C8 *)

\* f holds a well-formed record older at clock reading t than baseline_max_age_hours
StaleRecord(f, t) ==
    /\ f.kind = "object"
    /\ f.baseline.t = "num"
    /\ f.baseline.n # 0
    /\ f.timestamp.t = "num"
    /\ f.timestamp.n # 0
    /\ t - f.timestamp.n > cfg.baseline_max_age_hours * Secs(SecondsPerHour)

\* the construction on a record that is stale when it starts
StaleRejected ==
    (InitStep /\ StaleRecord(file, now)) =>
        /\ status' = "running"
        /\ call'.outcome = "False"
        /\ gas_baseline' = Null
        /\ time_baseline_established' = 0
        /\ baseline_gas_readings' = <<>>
        /\ current_calibration_start_time' = now

\* the step is the first update(g, true) on an object built on a stale record
FirstUpdateOnStale ==
    /\ StableUpdateStep
    /\ call.boot = "False"
    /\ StaleRecord(file, current_calibration_start_time)

\* C8 as stated: a record older than baseline_max_age_hours is rejected: load
\* returns False, gas_baseline stays null, the start of the cycle is not back-dated,
\* and the first update(g, true) returns level 0 with a burn-in label.
C8_AsStated ==
    [][/\ StaleRejected
       /\ FirstUpdateOnStale =>
            /\ call'.ret.raised = ""
            /\ call'.ret.index = CALIBRATING
            /\ call'.ret.label = "Burn-in (%ds)"]_vars

\* C8 amended: as C8, but the first update(g, true) returns level 0 with a burn-in
\* label when it is called before burn_in_duration has elapsed since construction;
\* called later it still returns level 0, sampling or reporting the failed baseline.
C8_StaleRejected ==
    [][/\ StaleRejected
       /\ FirstUpdateOnStale =>
            /\ call'.ret.raised = ""
            /\ call'.ret.index = CALIBRATING
            /\ Elapsed < Secs(cfg.burn_in_duration)
                  => call'.ret = Ret(CALIBRATING, "Burn-in (%ds)",
                                     IntSeconds(Secs(cfg.burn_in_duration) - Elapsed))
            /\ Elapsed >= Secs(cfg.burn_in_duration)
                  => call'.ret.label \in {"Baseline (%d)", "Baseline Fail"}]_vars

\* a calculator was built on a stale record, and its first update(g, true) returned
\* level 0 with the burn-in label
C8_Witness ==
    /\ call.op = "update"
    /\ call.after = "False"
    /\ call.heat_stable
    /\ StaleRecord(file, current_calibration_start_time)
    /\ gas_baseline = Null
    /\ call.ret.index = CALIBRATING
    /\ call.ret.label = "Burn-in (%ds)"

-----------------------------------------------------------------------------
(* C9 *)

\* the file does not hold a record: it is absent, empty or truncated, malformed,
\* not an object, or an object whose baseline or timestamp is missing or no number
NotARecord(f) ==
    \/ f.kind \in {"absent", "empty", "malformed", "nonobject"}
    \/ /\ f.kind = "object"
       /\ f.baseline.t # "num" \/ f.timestamp.t # "num"

\* C9: for every file content that is not a record, construction completes without
\* raising, load_baseline() returns False and gas_baseline is null, the calculator
\* starting a cold burn-in.
C9_FailsSoftly ==
    (call.op = "init" /\ NotARecord(file)) =>
        /\ status = "running"
        /\ call.outcome = "False"
        /\ gas_baseline = Null
        /\ baseline_gas_readings = <<>>

-----------------------------------------------------------------------------
(* C10 *)

\* the construction that loads the record of the file
LoadedAtConstruction ==
    (InitStep /\ call'.outcome = "True") =>
        /\ status' = "running"
        /\ gas_baseline' = file.baseline
        /\ time_baseline_established' = file.timestamp.n
        /\ current_calibration_start_time' = now' - WindowsLength
        /\ baseline_gas_readings' = <<>>

\* the step is the first update(g, true) on an object that loaded its baseline
FirstUpdateOnLoaded == StableUpdateStep /\ call.boot = "True"

\* C10 as stated: after a successful load gas_baseline and the established
\* timestamp equal the persisted values, the start of the cycle is back-dated by
\* burn_in_duration + baseline_sampling_duration, and the first update(g, true)
\* returns a level in 1..3.
C10_AsStated ==
    [][/\ LoadedAtConstruction
       /\ FirstUpdateOnLoaded => call'.ret.index \in {POOR, MODERATE, GOOD}]_vars

\* C10 amended: as C10, but the first update(g, true) returns a level in 1..3
\* unless a recalibration is due when it is called; then it resets the calculator
\* and returns level 0. (A recalibration that falls due while the call runs is
\* taken or not, as the call reads the clock.)
C10_LoadedActive ==
    [][/\ LoadedAtConstruction
       /\ (FirstUpdateOnLoaded /\ ~RecalibrationDueAt(now')) =>
            /\ call'.ret.index \in {POOR, MODERATE, GOOD}
            /\ call'.ret.index = Min(SpecRelative(call'.g, file.baseline),
                                     SpecAbsolute(call'.g))
            /\ gas_baseline' = file.baseline
            /\ baseline_gas_readings' = <<>>
       /\ (FirstUpdateOnLoaded /\ RecalibrationDue) =>
            /\ call'.ret.index = CALIBRATING
            /\ gas_baseline' = Null
       /\ FirstUpdateOnLoaded =>
            /\ call'.ret.raised = ""
            /\ call'.ret.index = CALIBRATING <=> call'.recalibrated
            /\ call'.recalibrated => RecalibrationDueAt(now')]_vars

\* a calculator loaded its baseline from the file and its first update(g, true),
\* made after the clock moved on, classified g against that baseline
C10_Witness ==
    /\ call.op = "update"
    /\ call.after = "True"
    /\ call.heat_stable
    /\ ~call.recalibrated
    /\ file.kind = "object"
    /\ gas_baseline = file.baseline
    /\ now > time_baseline_established + 1
    /\ call.ret.index \in {POOR, MODERATE, GOOD}

-----------------------------------------------------------------------------
(* C11 *)

\* the record save_baseline() writes for the baseline in memory after the step
NewRecord ==
    Object(gas_baseline', Num(time_baseline_established'),
           Readable(Num(time_baseline_established')))

\* the step is a call of update() during which the process died inside save_baseline()
KilledInSave == call'.op = "update_killed" /\ call'.outcome = "crash"

\* C11: when the process crashes during a save, the file afterwards holds the
\* complete previous content or the complete new record, never an empty or
\* truncated file.
C11_CrashSafe ==
    [][KilledInSave => (file' = file \/ file' = NewRecord)]_vars

-----------------------------------------------------------------------------
(* C12 *)

\* the step is a call of update() that established a baseline
Establishes == UpdateStep /\ gas_baseline = Null /\ gas_baseline' # Null

\* the write of save_baseline() failed in the step
WriteFailed == call'.saved /\ call'.outcome \in {"open_error", "write_error"}

\* the baseline in memory is not the one the file holds
Unsaved == gas_baseline # Null /\ ~SavedFromMemory

\* C12: when the write fails on the call that establishes a baseline, update() still
\* sets gas_baseline to the mean of the samples and returns a level in 1..3 on that
\* call; later calls classify against the baseline in memory, and write nothing
\* until the next baseline is established.
C12_WriteFailureNotFatal ==
    [][/\ (Establishes /\ WriteFailed) =>
            /\ gas_baseline' = Mean(baseline_gas_readings)
            /\ call'.ret.raised = ""
            /\ call'.ret.index \in {POOR, MODERATE, GOOD}
       /\ (StableUpdateStep /\ Unsaved /\ ~call'.recalibrated) =>
            /\ gas_baseline' = gas_baseline
            /\ call'.ret.raised = ""
            /\ call'.ret.index \in {POOR, MODERATE, GOOD}
       /\ UpdateStep => (call'.saved <=> Establishes)
       /\ (UpdateStep /\ ~Establishes) => file' = file]_vars

-----------------------------------------------------------------------------
(* C13 *)

\* the label update() gives a level
SpecLabel(level) ==
    IF level = GOOD THEN "Good" ELSE IF level = POOR THEN "Poor" ELSE "Moderate"

\* C13: on a calculator whose gas_baseline holds a value B, with automatic
\* recalibration off, update(g, true) returns the classification of g against B:
\* (3, "Good") for g/B > good_threshold, (1, "Poor") for g/B < poor_threshold and
\* (2, "Moderate") in between, also before the burn-in and sampling windows have
\* elapsed.
C13_ClassifiesAgainstSetBaseline ==
    [][(/\ StableUpdateStep
        /\ gas_baseline # Null
        /\ gas_baseline.n > 0
        /\ cfg.recalibration_interval = 0) =>
          /\ call'.ret.raised = ""
          /\ call'.ret.index = SpecRelative(call'.g, gas_baseline)
          /\ call'.ret.label = SpecLabel(call'.ret.index)]_vars

-----------------------------------------------------------------------------
(* C14 *)

\* C14: on a live calculator gas_baseline is non-null only in the ACTIVE phase, that
\* is only when now - phase_start_time >= burn_in_duration +
\* baseline_sampling_duration.
C14_BaselineOnlyWhenActive ==
    (status = "running" /\ gas_baseline # Null) => Elapsed >= WindowsLength

\* update() has just established a baseline, at the very end of windows of some length
C14_Witness ==
    /\ status = "running"
    /\ call.op = "update"
    /\ call.saved
    /\ gas_baseline # Null
    /\ call.ret.index \in {POOR, MODERATE, GOOD}
    /\ WindowsLength > 0
    /\ Elapsed = WindowsLength

-----------------------------------------------------------------------------
(* C15 *)

\* the elapsed time update() computed in the step: the clock it read first against
\* the start of the cycle it went on with
ElapsedInCall == now - current_calibration_start_time'

\* update() found itself in BASELINE_SAMPLING
SamplingInCall ==
    /\ Secs(cfg.burn_in_duration) <= ElapsedInCall
    /\ ElapsedInCall < WindowsLength

\* C15 as stated: after every update() the sample buffer is non-empty only if the
\* call fell in BASELINE_SAMPLING; it is empty whenever the sampling window has
\* elapsed, also when the calls after the window come with heat_stable = false.
C15_AsStated ==
    [][(UpdateStep /\ baseline_gas_readings' # <<>>) => SamplingInCall]_vars

\* C15 amended: the sample buffer is non-empty only from BASELINE_SAMPLING until the
\* samples are consumed: only when burn-in has elapsed and no baseline is
\* established yet. The first update(g, true) after the sampling window empties it;
\* until then calls with heat_stable = false leave it as it is.
C15_BufferUntilConsumed ==
    [][/\ (status' = "running" /\ baseline_gas_readings' # <<>>) =>
            /\ gas_baseline' = Null
            /\ now' - current_calibration_start_time' >= Secs(cfg.burn_in_duration)
       /\ (UpdateStep /\ baseline_gas_readings' # <<>> /\ ~SamplingInCall) =>
            /\ ~call'.heat_stable
            /\ baseline_gas_readings' = baseline_gas_readings
       /\ (StableUpdateStep /\ Elapsed >= WindowsLength /\ ~call'.recalibrated) =>
            baseline_gas_readings' = <<>>]_vars

\* update(g, false) was called after the sampling window had elapsed, and the buffer
\* still holds the samples
C15_Witness ==
    /\ call.op = "update"
    /\ ~call.heat_stable
    /\ call.ret = Ret(CALIBRATING, "Gas Heating", 0)
    /\ baseline_gas_readings # <<>>
    /\ Elapsed >= WindowsLength

-----------------------------------------------------------------------------
(* C16 *)

\* the step is a call of update(g, false)
UnstableUpdateStep == call'.op = "update" /\ ~call'.heat_stable

\* the calculator's memory is what it was
SameCalculator ==
    UNCHANGED <<gas_baseline, time_baseline_established,
                current_calibration_start_time, baseline_gas_readings>>

\* the label update(g, false) gives at the elapsed time it computed
UnstableLabel ==
    IF ElapsedInCall < Secs(cfg.burn_in_duration) THEN "Burn-in (Gas)" ELSE "Gas Heating"

\* C16 as stated: from any state update(g, false) leaves phase, gas_baseline,
\* established timestamp, sample buffer and file unchanged and returns level 0, with
\* label "Burn-in (Gas)" when elapsed < burn_in_duration and "Gas Heating" otherwise.
C16_AsStated ==
    [][UnstableUpdateStep =>
         /\ SameCalculator
         /\ file' = file
         /\ call'.ret.raised = ""
         /\ call'.ret.index = CALIBRATING
         /\ call'.ret.label = UnstableLabel]_vars

\* C16 amended: as C16, from any state in which no recalibration is due; when one
\* is due the call resets the calculator first (C3), and the label goes by the
\* elapsed time of the new cycle. The file is never written and the level is 0 in
\* either case.
C16_UnstableFrame ==
    [][UnstableUpdateStep =>
         /\ ~RecalibrationDueAt(now') => SameCalculator
         /\ SameCalculator \/ (call'.recalibrated /\ RecalibrationDueAt(now'))
         /\ file' = file
         /\ ~call'.saved
         /\ call'.ret.raised = ""
         /\ call'.ret.index = CALIBRATING
         /\ call'.ret.label = UnstableLabel]_vars

\* update(g, false) was called on an active calculator with no recalibration due:
\* level 0, "Gas Heating", and the baseline is still there
C16_Witness ==
    /\ call.op = "update"
    /\ ~call.heat_stable
    /\ ~call.recalibrated
    /\ gas_baseline # Null
    /\ gas_baseline.n > 0
    /\ call.ret = Ret(CALIBRATING, "Gas Heating", 0)
    /\ SpecRelative(call.g, gas_baseline) = GOOD

-----------------------------------------------------------------------------
(* C17 *)

\* the step is a call of get_baseline_info()
InfoStep == call'.op = "info"

\* the step is a second call of get_baseline_info() with no update() in between
SecondInfoStep == InfoStep /\ info.called

\* the clock readings of the two calls are the same
NoTimeBetween == info'.at = info.at /\ info'.at178 = info.at178

\* age_hours of the second call exceeds that of the first by the time between them
AgeGrewByTimePassed ==
    (info'.dict.age_hours.n * info.dict.age_hours.d
       - info.dict.age_hours.n * info'.dict.age_hours.d) * Secs(SecondsPerHour)
    = (info'.at - info.at) * info.dict.age_hours.d * info'.dict.age_hours.d

\* C17 as stated: two calls of get_baseline_info() with no update() between them
\* return identical results, whatever time passes between the two calls.
C17_AsStated ==
    [][SecondInfoStep => info'.dict = info.dict]_vars

\* C17 amended: two calls of get_baseline_info() with no update() between them
\* return identical results when no time passes between them; when time passes,
\* baseline_ohms and the timestamp are the same, age_hours has grown by the time
\* passed, and the staleness flag can only go from fresh to stale.
C17_InfoRepeatable ==
    [][SecondInfoStep =>
         /\ NoTimeBetween => info'.dict = info.dict
         /\ info'.dict.none = info.dict.none
         /\ info'.dict.baseline_ohms = info.dict.baseline_ohms
         /\ info'.dict.baseline_kohms = info.dict.baseline_kohms
         /\ info'.dict.timestamp = info.dict.timestamp
         /\ ~info.dict.none => AgeGrewByTimePassed
         /\ (~info.dict.none /\ ~info.dict.is_valid) => ~info'.dict.is_valid]_vars

\* get_baseline_info() was called a second time after the clock had moved on, and
\* gave the same baseline with a greater age
C17_Witness ==
    /\ call.op = "info"
    /\ info.called
    /\ ~info.dict.none
    /\ info.dict.baseline_ohms = gas_baseline
    /\ info.before >= 0
    /\ info.at > info.before
    /\ info.dict.age_hours.n > 0

-----------------------------------------------------------------------------
(* C18 *)

\* C18: get_baseline_info() returns None exactly when gas_baseline is null;
\* otherwise baseline_ohms is gas_baseline, baseline_kohms is gas_baseline / 1000
\* and the result is flagged stale exactly when a recalibration is due; the call
\* changes nothing of the calculator and leaves the file alone.
C18_InfoSnapshot ==
    [][InfoStep =>
         /\ info'.dict.none <=> gas_baseline = Null
         /\ gas_baseline # Null =>
              /\ info'.dict.baseline_ohms = gas_baseline
              /\ info'.dict.baseline_kohms.n * 1000 * gas_baseline.d
                   = gas_baseline.n * info'.dict.baseline_kohms.d
              /\ info'.dict.timestamp = time_baseline_established
              /\ ~info'.dict.is_valid <=> RecalibrationDueAt(info'.at178)
         /\ SameCalculator
         /\ file' = file
         /\ UNCHANGED <<cfg, status>>]_vars

\* get_baseline_info() flagged an established baseline as stale
C18_Witness ==
    /\ call.op = "info"
    /\ info.called
    /\ gas_baseline # Null
    /\ info.dict.baseline_ohms = gas_baseline
    /\ ~info.dict.is_valid
    /\ cfg.recalibration_interval > 0

\* get_baseline_info() returned None
C18_WitnessNone ==
    /\ call.op = "info"
    /\ info.called
    /\ gas_baseline = Null
    /\ info.dict.none

-----------------------------------------------------------------------------
(* C19 *)

\* C19: with recalibration_interval = 0, once gas_baseline is non-null no update()
\* call and no advance of the clock makes it null again, changes it, or resets the
\* start of the cycle.
C19_RecalibrationDisabled ==
    [][(/\ cfg.recalibration_interval = 0
        /\ status = "running"
        /\ gas_baseline # Null
        /\ ~InitStep) =>
          /\ gas_baseline' = gas_baseline
          /\ time_baseline_established' = time_baseline_established
          /\ current_calibration_start_time' = current_calibration_start_time
          /\ ~call'.recalibrated]_vars

\* with recalibration_interval = 0, update() classified against a baseline that is
\* more than two seconds old
C19_Witness ==
    /\ cfg.recalibration_interval = 0
    /\ call.op = "update"
    /\ ~call.saved
    /\ gas_baseline # Null
    /\ now - time_baseline_established > Secs(2)
    /\ call.ret.index \in {POOR, MODERATE, GOOD}

-----------------------------------------------------------------------------
(* C20 *)

\* C20: on a calculator constructed without absolute thresholds (as every
\* calculator here is: cfg carries none), the level update() returns when it
\* classifies is the relative level of g against the baseline alone.
C20_RelativeAloneWhenNoAbsolute ==
    [][(UpdateStep /\ call'.ret.index \in {POOR, MODERATE, GOOD}) =>
         /\ gas_baseline' # Null
         /\ call'.ret.index = SpecRelative(call'.g, gas_baseline')]_vars

-----------------------------------------------------------------------------
(* C21 *)

\* the labels update() gives with index 0
CalibratingLabels ==
    {"Burn-in (Gas)", "Gas Heating", "Burn-in (%ds)", "Baseline (%d)", "Baseline Fail"}

\* C21: every value update() returns is (index, label) with index in 0..3;
\* index 1 always carries "Poor", 2 "Moderate", 3 "Good"; index 0 always carries
\* one of the calibrating labels; and an index in 1..3 is returned only when
\* heat_stable was true and gas_baseline is non-null after the call.
C21_ReturnMapping ==
    (call.op = "update" /\ call.ret.raised = "") =>
        /\ call.ret.index \in {CALIBRATING, POOR, MODERATE, GOOD}
        /\ call.ret.index = POOR => call.ret.label = "Poor"
        /\ call.ret.index = MODERATE => call.ret.label = "Moderate"
        /\ call.ret.index = GOOD => call.ret.label = "Good"
        /\ call.ret.index = CALIBRATING => call.ret.label \in CalibratingLabels
        /\ call.ret.label \in {"Poor", "Moderate", "Good"} => call.ret.index # CALIBRATING
        /\ call.ret.index \in {POOR, MODERATE, GOOD} =>
              (call.heat_stable /\ gas_baseline # Null)

\* update() returned (2, "Moderate") on stable heat
C21_Witness ==
    /\ call.op = "update"
    /\ call.ret.raised = ""
    /\ call.heat_stable
    /\ call.ret.index = MODERATE
    /\ call.ret.label = "Moderate"

-----------------------------------------------------------------------------
(* C27 *)

\* both windows have elapsed, no baseline is set and samples are buffered
EstablishmentDue ==
    /\ status = "running"
    /\ gas_baseline = Null
    /\ baseline_gas_readings # <<>>
    /\ Elapsed >= WindowsLength

\* the calculator as the step leaves it
SelfAfter ==
    [gas_baseline |-> gas_baseline',
     time_baseline_established |-> time_baseline_established',
     current_calibration_start_time |-> current_calibration_start_time',
     baseline_gas_readings |-> baseline_gas_readings']

\* C27: the first update(g, true) with both windows elapsed, gas_baseline null and
\* a non-empty buffer sets gas_baseline to the arithmetic mean of the buffered
\* readings (sum / count), sets the baseline timestamp to now, clears the buffer,
\* saves the record, and returns on the same call the classification of g against
\* the new baseline, a level in 1..3.
C27_Establishment ==
    [][(StableUpdateStep /\ EstablishmentDue) =>
         /\ gas_baseline' = Frac(SumSeq(baseline_gas_readings), Len(baseline_gas_readings))
         /\ time_baseline_established' = now
         /\ baseline_gas_readings' = <<>>
         /\ call'.saved
         /\ call'.outcome = "ok" => file' = NewRecord
         /\ call'.ret.raised = ""
         /\ call'.ret.index \in {POOR, MODERATE, GOOD}
         /\ call'.ret = classify(SelfAfter, call'.g)]_vars

-----------------------------------------------------------------------------
(* C28 *)

\* a call starting now falls in the sampling window
InSamplingWindow ==
    /\ status = "running"
    /\ Secs(cfg.burn_in_duration) <= Elapsed
    /\ Elapsed < WindowsLength

\* C28: update(g, true) with burn_in_duration <= elapsed < burn_in_duration +
\* baseline_sampling_duration appends g to the sample buffer (it grows by exactly
\* one, the earlier samples unchanged), leaves gas_baseline null, and returns
\* (0, "Baseline (n)") where n is the buffer length after the append.
C28_SamplingAppends ==
    [][(StableUpdateStep /\ InSamplingWindow) =>
         /\ baseline_gas_readings' = Append(baseline_gas_readings, call'.g)
         /\ Len(baseline_gas_readings') = Len(baseline_gas_readings) + 1
         /\ gas_baseline = Null
         /\ gas_baseline' = Null
         /\ call'.ret = Ret(CALIBRATING, "Baseline (%d)", Len(baseline_gas_readings'))]_vars

\* the second sample of a window was appended behind a different first one
C28_Witness ==
    /\ call.op = "update"
    /\ call.heat_stable
    /\ call.ret = Ret(CALIBRATING, "Baseline (%d)", 2)
    /\ Len(baseline_gas_readings) = 2
    /\ baseline_gas_readings[2] = call.g
    /\ baseline_gas_readings[1] # call.g
    /\ gas_baseline = Null

-----------------------------------------------------------------------------
(* C29 *)

\* a call starting now falls in the burn-in
InBurnIn ==
    /\ status = "running"
    /\ Elapsed < Secs(cfg.burn_in_duration)

\* r is the time left of the burn-in, in seconds, rounded down
RemainingSeconds(r) ==
    /\ Secs(r) <= Secs(cfg.burn_in_duration) - Elapsed
    /\ Secs(cfg.burn_in_duration) - Elapsed < Secs(r + 1)

-----------------------------------------------------------------------------
(* C30 *)

BURN_IN == "BURN_IN"
BASELINE_SAMPLING == "BASELINE_SAMPLING"
ACTIVE == "ACTIVE"

\* the phase at an elapsed time e of the cycle
PhaseAt(e) ==
    IF e < Secs(cfg.burn_in_duration) THEN BURN_IN
    ELSE IF e < WindowsLength THEN BASELINE_SAMPLING
    ELSE ACTIVE

Phase == PhaseAt(Elapsed)

\* the order BURN_IN -> BASELINE_SAMPLING -> ACTIVE
PhaseRank(p) == CASE p = BURN_IN -> 0 [] p = BASELINE_SAMPLING -> 1 [] p = ACTIVE -> 2

\* the step goes on with the same calculator object
SameObject == status = "running" /\ status' = "running" /\ ~InitStep

\* the step is a call of update() that reset the cycle
RecalibrationStep == UpdateStep /\ call'.recalibrated

\* C30: the phase only moves along BURN_IN -> BASELINE_SAMPLING -> ACTIVE as the
\* elapsed time grows, and the only backward move is out of ACTIVE by a
\* recalibration reset: the start of the cycle is reset only inside update() and
\* only when gas_baseline is non-null and its age exceeds recalibration_interval,
\* so a calculator in BURN_IN or BASELINE_SAMPLING is never restarted.
C30_PhaseOrder ==
    [][SameObject =>
         /\ ~RecalibrationStep =>
               /\ current_calibration_start_time' = current_calibration_start_time
               /\ PhaseRank(Phase') >= PhaseRank(Phase)
         /\ RecalibrationStep =>
               /\ Phase = ACTIVE
               /\ gas_baseline # Null
               /\ RecalibrationDueAt(now')
               /\ current_calibration_start_time' = now'
               /\ Phase' = PhaseAt(0)
         /\ Phase # ACTIVE =>
               current_calibration_start_time' = current_calibration_start_time]_vars

\* a recalibration took the calculator out of ACTIVE, back to BURN_IN
C30_Witness ==
    /\ call.op = "update"
    /\ call.recalibrated
    /\ cfg.burn_in_duration > 0
    /\ Phase = BURN_IN
    /\ gas_baseline = Null

-----------------------------------------------------------------------------
(* C22 *)

\* the calculator runs with automatic recalibration and a sampling window that
\* the loop's calls cannot miss
Recalibrating ==
    /\ status = "running"
    /\ cfg.recalibration_interval > 0
    /\ cfg.baseline_sampling_duration > 0

\* the last step was a call of update() that established a baseline
JustEstablished == call.op = "update" /\ call.saved /\ gas_baseline # Null

\* the last step was a call of update() that reset the cycle
JustRecalibrated == call.op = "update" /\ call.recalibrated /\ gas_baseline = Null

\* unless the calculator does not recalibrate
EstablishedAgain == Recalibrating => JustEstablished
RecalibratedAgain == Recalibrating => JustRecalibrated

\* C22: the calculator has no terminal state: with recalibration_interval > 0, the
\* clock advancing and update(g, true) called at every tick, the ticks shorter than
\* the sampling window, a baseline is established infinitely often and a
\* recalibration reset to BURN_IN happens infinitely often.
C22_NoTerminalState ==
    []<>EstablishedAgain /\ []<>RecalibratedAgain

\* a second cycle: a baseline was established after a recalibration had cleared
\* the one before
C22_Witness ==
    /\ status = "running"
    /\ cfg.recalibration_interval > 0
    /\ cfg.baseline_sampling_duration > 0
    /\ JustEstablished
    /\ current_calibration_start_time > ClockStart

-----------------------------------------------------------------------------
(* C24 *)

\* the step is the construction of a DataLogger, and it raised nothing
LoggerConstructed == lcall'.op = "init" /\ lcall'.raised = ""

\* the file is absent or has size 0
NewCsv == ~csv.exists \/ csv.rows = <<>>

\* C24: constructing a DataLogger writes the column header as the only row when
\* the file is absent or empty, and leaves an existing non-empty file unchanged;
\* after the construction the file exists and has size > 0.
C24_HeaderOnlyOnNewFile ==
    [][LoggerConstructed =>
         /\ NewCsv => csv' = Csv(<<[i \in 1..7 |-> Text(DEFAULT_COLUMNS[i])]>>)
         /\ ~NewCsv => csv' = csv
         /\ csv'.exists
         /\ Len(csv'.rows) > 0]_vars

\* a logger was constructed on a file that held a header and a logged row, and the
\* file still holds them
C24_Witness ==
    /\ lcall.op = "init"
    /\ lcall.raised = ""
    /\ ~lcall.fresh
    /\ Len(csv.rows) >= 2
    /\ csv.rows[1] = HeaderRow

\* a logger was constructed on an absent or empty file
C24_WitnessNew ==
    /\ lcall.op = "init"
    /\ lcall.raised = ""
    /\ lcall.fresh
    /\ csv = Csv(<<HeaderRow>>)

-----------------------------------------------------------------------------
(* C23 *)

\* the step is a call of log_reading() in which no I/O error occurred
LogStep == lcall'.op = "log_reading" /\ lcall'.outcome = "ok"

\* cell c holds the number v to two decimals
RoundedTo2(v, c) ==
    /\ c.t = "num"
    /\ 100 % c.d = 0
    /\ 200 * Abs(v.n * c.d - c.n * v.d) <= v.d * c.d

\* cell c holds the optional number v
OptionalTo2(v, c) == IF v = Null THEN c = Text("") ELSE RoundedTo2(v, c)

\* row is the reading, logged at clock reading t
IsRowOf(row, reading, t) ==
    /\ Len(row) = 7
    /\ row[1] = Str(t \div TicksPerSecond)
    /\ RoundedTo2(reading.temperature, row[2])
    /\ RoundedTo2(reading.humidity, row[3])
    /\ RoundedTo2(reading.pressure, row[4])
    /\ OptionalTo2(reading.gas_resistance, row[5])
    /\ row[6] = IF reading.air_quality_index = Null THEN Text("")
                ELSE reading.air_quality_index
    /\ row[7] = reading.air_quality_label

\* the row of the column names
ColumnHeader == [i \in 1..7 |-> Text(DEFAULT_COLUMNS[i])]

\* C23: log_reading() appends exactly one row at the end of the CSV file and
\* leaves the header and every earlier row unchanged: after construction on a new
\* file followed by n log_reading() calls (no I/O error), the file holds the header
\* followed by the n readings in call order, a reading with gas_resistance = None
\* or air_quality_index = None included.
C23_AppendsOneRow ==
    [][/\ LogStep =>
            /\ Len(csv'.rows) = Len(csv.rows) + 1
            /\ SubSeq(csv'.rows, 1, Len(csv.rows)) = csv.rows
            /\ IsRowOf(csv'.rows[Len(csv'.rows)], lcall'.reading, lcall'.at)
       /\ (lcall'.fresh /\ lcall'.clean) =>
            /\ Len(csv'.rows) = 1 + Len(lcall'.logged)
            /\ csv'.rows[1] = ColumnHeader
            /\ \A i \in 1..Len(lcall'.logged) :
                  IsRowOf(csv'.rows[i + 1], lcall'.logged[i].reading,
                          lcall'.logged[i].at)]_vars

\* a new file holds the header, a reading without gas resistance and index, and a
\* classified reading logged after it
C23_Witness ==
    /\ lcall.op = "log_reading"
    /\ lcall.fresh
    /\ lcall.clean
    /\ Len(lcall.logged) = 2
    /\ lcall.logged[1].reading = CalibratingReading
    /\ lcall.logged[2].reading = ClassifiedReading
    /\ Len(csv.rows) = 3
    /\ csv.rows[2][5] = Text("")
    /\ csv.rows[3][5] = Num(100000)

-----------------------------------------------------------------------------
(* C25 *)

\* a dict of a batch is well formed: it has the three measurements
WellFormed(reading) ==
    Missing \notin {reading.temperature, reading.humidity, reading.pressure}

\* row is the dict of a batch, written at clock reading t (a gas resistance of 0
\* may be written as an empty cell)
IsBatchRowOf(row, reading, t) ==
    /\ Len(row) = 7
    /\ row[1] = IF reading.timestamp = Missing THEN Str(t \div TicksPerSecond)
                ELSE reading.timestamp
    /\ RoundedTo2(reading.temperature, row[2])
    /\ RoundedTo2(reading.humidity, row[3])
    /\ RoundedTo2(reading.pressure, row[4])
    /\ OptionalTo2(IF reading.gas_resistance \in {Missing, Num(0)} THEN Null
                   ELSE reading.gas_resistance, row[5])
    /\ row[6] = IF reading.air_quality_index \in {Null, Missing} THEN Text("")
                ELSE reading.air_quality_index
    /\ row[7] = IF reading.air_quality_label = Missing THEN Text("Unknown")
                ELSE reading.air_quality_label

\* the step is an entry into batch_mode() or an append to its list
BatchOpenStep == lcall'.op \in {"batch_enter", "batch_append"}

\* the step leaves the context of batch_mode(), and no I/O error occurred
BatchExitStep == lcall'.op = "batch_exit" /\ lcall'.outcome = "ok"

\* the well-formed dicts of the batch the step wrote, in order
WellFormedBatch == SelectSeq(lcall'.batch, WellFormed)

\* C25: batch_mode() writes nothing while the context is open and, on leaving the
\* context (normally or by exception), appends every well-formed reading added to
\* the batch, in order, after the existing rows: a fresh logger with n batched
\* readings ends with header + n rows; an empty batch writes nothing.
C25_BatchWrittenOnExit ==
    [][/\ BatchOpenStep => csv' = csv
       /\ BatchExitStep =>
            /\ Len(csv'.rows) = Len(csv.rows) + Len(WellFormedBatch)
            /\ SubSeq(csv'.rows, 1, Len(csv.rows)) = csv.rows
            /\ \A i \in 1..Len(WellFormedBatch) :
                  IsBatchRowOf(csv'.rows[Len(csv.rows) + i], WellFormedBatch[i],
                               lcall'.at)
            /\ lcall'.batch = <<>> => csv' = csv]_vars

-----------------------------------------------------------------------------
(* C26 *)

\* the string s holds no dot
Dotless(s) == \A i \in 1..Len(s) : s[i] # "."

\* the keys joined with dots
RECURSIVE Joined(_)
Joined(keys) ==
    IF Len(keys) = 1 THEN keys[1]
    ELSE keys[1] \o <<".">> \o Joined(Tail(keys))

\* keys are the dot-separated keys of key_path
KeysOf(key_path, keys) ==
    /\ Len(keys) >= 1
    /\ \A i \in 1..Len(keys) : Dotless(keys[i])
    /\ Joined(keys) = key_path

\* the value reached from the document by the first i keys, when each value on the
\* way is a mapping that has the next key
RECURSIVE ValueAt(_, _, _)
ValueAt(doc, keys, i) ==
    IF i = 0 THEN doc ELSE ValueAt(doc, keys, i - 1).m[keys[i]]

RECURSIVE Reachable(_, _, _)
Reachable(doc, keys, i) ==
    \/ i = 0
    \/ /\ Reachable(doc, keys, i - 1)
       /\ ValueAt(doc, keys, i - 1).t = "map"
       /\ keys[i] \in DOMAIN ValueAt(doc, keys, i - 1).m

\* C26: Config.get(key_path, default) returns the value reached by following the
\* dot-separated keys through the nested mappings of the loaded configuration,
\* and returns default whenever a key on the path is missing or an intermediate
\* value is not a mapping (an empty configuration included); it never raises.
C26_GetFollowsPath ==
    got.called =>
        /\ got.raised = ""
        /\ KeysOf(got.key_path, got.keys)
        /\ got.value = IF Reachable(_config, got.keys, Len(got.keys))
                       THEN ValueAt(_config, got.keys, Len(got.keys))
                       ELSE got.default

\* get("a.b", "default") found the value 119 two mappings deep
C26_Witness ==
    /\ got.called
    /\ got.key_path = <<"a", ".", "b">>
    /\ got.default = Text("default")
    /\ got.value = Num(119)

\* get("a.b", "default") gave the default because the value at "a" is a number
C26_WitnessDefault ==
    /\ got.called
    /\ got.key_path = <<"a", ".", "b">>
    /\ got.default = Text("default")
    /\ _config.t = "map"
    /\ <<"a">> \in DOMAIN _config.m
    /\ _config.m[<<"a">>] = Num(1)
    /\ got.value = Text("default")

-----------------------------------------------------------------------------
(* C31 *)

\* _assess_absolute_quality(g) has just returned
Assessed == call.op = "_assess_absolute_quality"

\* C31: the absolute level of a reading g is GOOD when g > excellent_abs or
\* g > good_abs, otherwise MODERATE when g > moderate_abs, otherwise POOR; a reading
\* exactly equal to a threshold falls into the lower level.
C31_AbsoluteLevel ==
    Assessed =>
        /\ call.ret.index = SpecAbsolute(call.g)
        /\ call.ret.index =
              (IF call.g > excellent_threshold_abs \/ call.g > good_threshold_abs THEN GOOD
               ELSE IF call.g > moderate_threshold_abs THEN MODERATE
               ELSE POOR)
        /\ call.g = good_threshold_abs => call.ret.index = MODERATE
        /\ call.g = moderate_threshold_abs => call.ret.index = POOR

\* a reading of exactly moderate_threshold_abs was assessed as POOR
C31_Witness ==
    /\ Assessed
    /\ call.g = moderate_threshold_abs
    /\ call.ret.index = POOR

\* a reading of exactly good_threshold_abs was assessed as MODERATE
C31_WitnessGood ==
    /\ Assessed
    /\ call.g = good_threshold_abs
    /\ call.ret.index = MODERATE

-----------------------------------------------------------------------------
(* C32 *)

\* the file holds a well-formed record: a non-zero number for the baseline and for
\* the timestamp
WellFormedRecord(f) ==
    /\ f.kind = "object"
    /\ f.baseline.t = "num" /\ f.baseline.n # 0
    /\ f.timestamp.t = "num" /\ f.timestamp.n # 0

\* a calculator has just been constructed and its load_baseline() returned False on
\* a well-formed record; the clock was last read at line 113
RejectedForAge ==
    /\ call.op = "init"
    /\ call.boot = "False"
    /\ WellFormedRecord(file)

\* baseline_max_age_hours converted to ticks
BaselineMaxAge == cfg.baseline_max_age_hours * Secs(SecondsPerHour)

\* C32 as stated: load_baseline() rejects a well-formed record for age only when
\* (now - established_at) exceeds baseline_max_age_hours converted to seconds: a
\* record whose age is exactly equal to the maximum is still loaded.
C32_AsStated ==
    RejectedForAge => now - file.timestamp.n > BaselineMaxAge

\* C32 amended: load_baseline() rejects a well-formed record for age exactly when
\* (now - established_at) has reached baseline_max_age_hours converted to seconds:
\* a record whose age is exactly equal to the maximum is rejected, a younger one is
\* loaded. (A construction starts at the clock value now and ends at now'.)
C32_RejectedFromMaxAge ==
    [][(InitStep /\ WellFormedRecord(file)) =>
         /\ now - file.timestamp.n >= BaselineMaxAge
               => (call'.boot = "False" /\ gas_baseline' = Null)
         /\ now' - file.timestamp.n < BaselineMaxAge
               => (call'.boot = "True" /\ gas_baseline' = file.baseline)
         /\ call'.boot = "False" => now' - file.timestamp.n >= BaselineMaxAge]_vars

\* a restarted process rejected a well-formed record whose age is exactly the maximum
C32_Witness ==
    /\ RejectedForAge
    /\ call.seq > 1
    /\ now - file.timestamp.n = BaselineMaxAge

-----------------------------------------------------------------------------
(* C33 *)

\* the file holds a record of the baseline in memory and of its timestamp
FileHoldsBaseline ==
    /\ file.kind = "object"
    /\ file.baseline = gas_baseline
    /\ file.timestamp = Num(time_baseline_established)

\* C33: if no write ever fails, then in every reachable state in which gas_baseline
\* is non-null the persistence file holds a record whose baseline equals
\* gas_baseline and whose timestamp equals the in-memory established timestamp.
C33_FileMirrorsBaseline ==
    gas_baseline # Null => FileHoldsBaseline

\* an update established a baseline after the clock had moved on, and the file
\* holds the new record
C33_Witness ==
    /\ call.op = "update"
    /\ call.saved
    /\ gas_baseline # Null
    /\ time_baseline_established > ClockStart
    /\ FileHoldsBaseline

-----------------------------------------------------------------------------
(* C34 *)

\* the step is an update() call that establishes a baseline and goes on to save it
\* (the process may die in the write)
EstablishingStep ==
    /\ call'.op \in {"update", "update_killed"}
    /\ call'.saved
    /\ gas_baseline = Null
    /\ gas_baseline' # Null

\* C34: the persistence file is written only on the update() tick that establishes a
\* baseline: trigger_recalibration, load_baseline, get_baseline_info and every other
\* branch of update() leave the file unchanged, so between a recalibration reset and
\* the next establishment the file still holds the pre-recalibration record.
C34_FileWrittenOnlyOnEstablishment ==
    [][/\ file' # file => EstablishingStep
       /\ RecalibrationStep => file' = file
       /\ InitStep => file' = file
       /\ call'.op = "info" => file' = file
       /\ gas_baseline' = Null => file' = file]_vars

\* a recalibration has just cleared a baseline that was established and saved since
\* the start, and the file still holds its record
C34_Witness ==
    /\ call.op = "update"
    /\ call.recalibrated
    /\ gas_baseline = Null
    /\ file.kind = "object"
    /\ file.baseline.t = "num"
    /\ file.timestamp.t = "num"
    /\ file.timestamp.n > ClockStart

-----------------------------------------------------------------------------
(* C35 *)

\* the calculator was constructed on a record it loaded, no update() was called on
\* it yet, and the age of the record is greater than recalibration_interval (> 0)
LoadedRecordDue ==
    /\ call.boot = "True"
    /\ file.kind = "object"
    /\ cfg.recalibration_interval > 0
    /\ now - file.timestamp.n > Secs(cfg.recalibration_interval)

\* C35: a due recalibration is not lost across a restart: when load_baseline()
\* has accepted a record whose age is greater than recalibration_interval (> 0), the
\* first update() call resets the calculator to the start of the burn-in and clears
\* the loaded baseline instead of classifying against it.
C35_DueRecalibrationSurvivesRestart ==
    [][(UpdateStep /\ LoadedRecordDue) =>
         /\ gas_baseline = file.baseline
         /\ call'.recalibrated
         /\ gas_baseline' = Null
         /\ time_baseline_established' = 0
         /\ current_calibration_start_time' = now'
         /\ Phase' = PhaseAt(0)
         /\ cfg.burn_in_duration > 0 => Phase' = BURN_IN
         /\ call'.ret.raised = ""
         /\ call'.ret.index = CALIBRATING
         /\ file' = file]_vars

\* a process restarted on a record written since the start, older than the interval,
\* and its first update() reset the calculator to BURN_IN
C35_Witness ==
    /\ call.op = "update"
    /\ call.after = "True"
    /\ call.recalibrated
    /\ gas_baseline = Null
    /\ file.kind = "object"
    /\ file.timestamp.t = "num"
    /\ file.timestamp.n > ClockStart
    /\ cfg.burn_in_duration > 0
    /\ Phase = BURN_IN
    /\ call.ret.index = CALIBRATING

-----------------------------------------------------------------------------
(* C36 *)

\* the step is a call of update() that finds a baseline and leaves one
KeepsABaseline ==
    /\ call'.op \in {"update", "update_killed"}
    /\ gas_baseline # Null
    /\ gas_baseline' # Null

\* C36: an established baseline is immutable until recalibration: from the tick
\* gas_baseline becomes non-null until the tick a recalibration reset clears it, no
\* update() call changes the value of gas_baseline or of the established timestamp,
\* whatever readings are passed; and only a recalibration reset clears it.
C36_BaselineImmutable ==
    [][/\ KeepsABaseline =>
            /\ gas_baseline' = gas_baseline
            /\ time_baseline_established' = time_baseline_established
            /\ ~call'.recalibrated
       /\ (call'.op \in {"update", "update_killed"} /\ gas_baseline # Null
             /\ gas_baseline' = Null) =>
            /\ call'.recalibrated
            /\ RecalibrationDueAt(now')]_vars

\* a baseline established from a sample of 50000 was kept by a later update() that
\* was passed another reading
C36_Witness ==
    /\ call.op = "update"
    /\ ~call.saved
    /\ ~call.recalibrated
    /\ gas_baseline = Num(50000)
    /\ call.g = 189000
    /\ call.after = ""
    /\ time_baseline_established > ClockStart
    /\ now > time_baseline_established

-----------------------------------------------------------------------------
(* C37 *)

\* the buffer the call went on with: emptied when the call reset the cycle
BufferInCall == IF call'.recalibrated THEN <<>> ELSE baseline_gas_readings

\* C37: every reading in the sample buffer was passed to update() with
\* heat_stable = true during the sampling window of the current calibration cycle.
\* The buffer is empty after construction and is emptied by every recalibration
\* reset; an update() call changes it only by appending its own reading, which it
\* does only with heat_stable = true inside the sampling window of the cycle it is
\* in, or by emptying it when it establishes the baseline as the mean of exactly
\* the buffered samples; nothing else changes it and the cycle's start stays the
\* same meanwhile. So no sample of an earlier cycle contributes to a later baseline.
C37_BufferOfCurrentCycle ==
    [][/\ InitStep => baseline_gas_readings' = <<>>
       /\ RecalibrationStep => baseline_gas_readings' \in {<<>>, <<call'.g>>}
       /\ call'.op \in {"update", "update_killed"} =>
            \/ baseline_gas_readings' = BufferInCall
            \/ /\ baseline_gas_readings' = Append(BufferInCall, call'.g)
               /\ call'.heat_stable
               /\ SamplingInCall
            \/ /\ baseline_gas_readings' = <<>>
               /\ call'.saved
       /\ call'.saved =>
            /\ baseline_gas_readings # <<>>
            /\ ~call'.recalibrated
            /\ gas_baseline'.n * Len(baseline_gas_readings)
                  = SumSeq(baseline_gas_readings) * gas_baseline'.d
       /\ (baseline_gas_readings' # <<>> /\ ~RecalibrationStep /\ ~InitStep) =>
            current_calibration_start_time' = current_calibration_start_time
       /\ call'.op \notin {"init", "update", "update_killed"} =>
            baseline_gas_readings' = baseline_gas_readings]_vars

\* a second cycle, begun by a recalibration, holds a sample of its own in the buffer
C37_Witness ==
    /\ call.op = "update"
    /\ call.heat_stable
    /\ ~call.recalibrated
    /\ gas_baseline = Null
    /\ current_calibration_start_time > ClockStart
    /\ time_baseline_established = 0
    /\ baseline_gas_readings = <<call.g>>
    /\ file.kind = "object"
    /\ file.timestamp.t = "num"
    /\ file.timestamp.n > ClockStart
    /\ file.baseline # Num(call.g)

-----------------------------------------------------------------------------
(* C38 *)

\* the configurations that differ from cfg in the clean-air range only
Twins == {WithCleanAir(cfg, range) : range \in CleanAirRanges} \ {cfg}

\* the two results are the same but for what was logged
SameButLog(r1, r2) == [r1 EXCEPT !.log = ""] = [r2 EXCEPT !.log = ""]

\* the step is the call update(g, heat_stable) of the calculator configured with c,
\* the clock advancing by d1 and d2 inside the call and the write ending with outcome
IsUpdateOf(c, d1, d2, outcome) ==
    \E r \in {update(c, Self, file, call'.g, call'.heat_stable,
                     now, now + d1, now + d1 + d2, outcome, Empty)} :
        /\ now' = now + d1 + d2
        /\ file' = r.file
        /\ Self' = r.self
        /\ call'.ret = r.ret
        /\ call'.recalibrated = r.recalibrated
        /\ call'.saved = r.saved
        /\ (call'.op = "update_killed") = r.killed

\* the step is the construction, on the file, of a calculator configured with c
IsConstructionOf(c, d1, d2) ==
    \E r \in {construct(c, file, now, now + d1, now + d1 + d2)} :
        /\ now' = now + d1 + d2
        /\ Self' = r.self
        /\ call'.boot = r.outcome

\* the write outcomes a call can have had
OutcomesOf(c) == IF c.saved THEN {c.outcome} ELSE {"ok"}

\* the baseline is below clean_air_min
BelowCleanAir(b) == b.t = "num" /\ b.n < cfg.clean_air_min * b.d

\* C38: clean_air_min and clean_air_max are diagnostic only. From every reachable
\* state, a calculator that differs in these two parameters only and is given the
\* same file, clock readings and call does what this one does: each update() leaves
\* the same fields and the same file and returns the same (index, label), and each
\* construction loads the same baseline; so two such calculators run through the
\* same states. A baseline below clean_air_min is still loaded, established and
\* used.
C38_CleanAirDiagnosticOnly ==
    [][/\ \A twin \in Twins, dd \in Skews :
            /\ dd[1] + dd[2] = now' - now
            /\ call'.op \in {"update", "update_killed"}
            => \A outcome \in OutcomesOf(call') :
                  IsUpdateOf(cfg, dd[1], dd[2], outcome)
                     => IsUpdateOf(twin, dd[1], dd[2], outcome)
       /\ \A twin \in Twins, dd \in Skews :
            (dd[1] + dd[2] = now' - now /\ InitStep /\ IsConstructionOf(cfg, dd[1], dd[2]))
               => IsConstructionOf(twin, dd[1], dd[2])
       /\ (InitStep /\ WellFormedRecord(file) /\ BelowCleanAir(file.baseline)
             /\ now' - file.timestamp.n < BaselineMaxAge)
            => (call'.boot = "True" /\ gas_baseline' = file.baseline)
       /\ (StableUpdateStep /\ call'.saved /\ baseline_gas_readings # <<>>
             /\ SumSeq(baseline_gas_readings)
                   < cfg.clean_air_min * Len(baseline_gas_readings))
            => /\ gas_baseline' # Null
               /\ BelowCleanAir(gas_baseline')
               /\ call'.outcome = "ok" => FileHoldsBaseline'
       /\ (Classifies /\ BelowCleanAir(gas_baseline))
            => /\ call'.ret.index = Min(SpecRelative(call'.g, gas_baseline),
                                        SpecAbsolute(call'.g))
               /\ gas_baseline' = gas_baseline]_vars

\* a calculator with clean_air_min 150000 loaded the baseline 140000 and classified
\* a reading against it
C38_Witness ==
    /\ call.op = "update"
    /\ call.after = "True"
    /\ cfg.clean_air_min = 150000
    /\ gas_baseline = Num(140000)
    /\ call.ret.index \in {POOR, MODERATE, GOOD}

\* a calculator with clean_air_min 150000 established the baseline 50000
C38_WitnessEstablished ==
    /\ call.op = "update"
    /\ call.saved
    /\ cfg.clean_air_min = 150000
    /\ gas_baseline = Num(50000)
    /\ call.ret.index \in {POOR, MODERATE, GOOD}

-----------------------------------------------------------------------------
(* C39 *)

\* what one pass of the legacy loop does from the state the calculator is in, given
\* the reading of the call and the write ending with outcome
LegacyPass(outcome) ==
    sensor_loop(cfg, Self, file, call'.g, call'.heat_stable, now, outcome, Empty)

\* the step is an update() call, and the legacy loop's pass from the same state, on
\* the same clock and file and with the same reading keeps the same baseline,
\* established timestamp, start of the cycle and sample buffer, and writes the same
\* file; when the absolute level of the reading is GOOD it reports the same index
\* and label
UpdateMatchesLegacy ==
    \A outcome \in OutcomesOf(call') :
        \E pass \in {LegacyPass(outcome)} :
            /\ pass.self = Self'
            /\ pass.file = file'
            /\ SpecAbsolute(call'.g) = GOOD => pass.ret = call'.ret

\* the step is a construction, and the legacy script started on the same file with
\* the same clock readings has the same globals
StartMatchesLegacy ==
    \A dd \in Skews :
        (dd[1] + dd[2] = now' - now /\ IsConstructionOf(cfg, dd[1], dd[2]))
           => \E r \in {sensor_start(cfg, file, now, now + dd[1], now + dd[1] + dd[2])} :
                 /\ r.self = Self'
                 /\ r.outcome = call'.boot

\* C39 as stated: AirQualityCalculator refines the legacy polling loop of sensor.py:
\* run side by side on the same clock, persistence file and sequence of
\* (gas_resistance, heat_stable) ticks with the same durations, interval and ratio
\* thresholds, both keep the same baseline, established timestamp, phase start and
\* sample buffer after every tick, and they report the same index and label on
\* every tick on which the calculator's absolute level is GOOD.
C39_AsStated ==
    [][/\ call'.op \in {"update", "update_killed"} => UpdateMatchesLegacy
       /\ InitStep => StartMatchesLegacy]_vars

\* the clock gave one value to every reading of the call
OneClockValueInCall == now' = now

\* C39 amended: as C39, on every tick in which the clock gives the same value to
\* every reading the tick makes of it.
C39_RefinesLegacy ==
    [][/\ (call'.op \in {"update", "update_killed"} /\ OneClockValueInCall)
            => UpdateMatchesLegacy
       /\ InitStep => StartMatchesLegacy]_vars

\* a tick classified a reading whose absolute level is GOOD against a baseline it is
\* exactly 0.70 of, and reported Moderate as the legacy loop does; the calculator
\* reads the clock once in such a call
C39_Witness ==
    /\ call.op = "update"
    /\ call.heat_stable
    /\ cfg.recalibration_interval = 0
    /\ gas_baseline = Num(270000)
    /\ call.g = 189000
    /\ SpecAbsolute(call.g) = GOOD
    /\ call.ret = Ret(MODERATE, "Moderate", 0)

\* a tick reset the calculator for recalibration
C39_WitnessRecalibration ==
    /\ call.op = "update"
    /\ call.recalibrated
    /\ gas_baseline = Null
    /\ current_calibration_start_time = now

====
